---- MODULE Spec2Model ----
(***************************************************************************)
(* TokenGovernor: the governance engine (GovernorAgent), its rate limiter  *)
(* and checkpoint manager, and the stores they read and write.             *)
(*                                                                         *)
(* Time is the wall clock in whole seconds.  The stores are the SQLite     *)
(* tables behind ProjectRepository, TaskRepository and                     *)
(* TokenUsageRepository.  Every handler is one action; a background loop   *)
(* is a sequence of steps, one per suspension point that matters.          *)
(***************************************************************************)
EXTENDS Integers, Sequences, FiniteSets, TLC

-----------------------------------------------------------------------------
(* Bounds of the model *)

MaxTicks == 3
MaxHistory == 2
MaxUsage == 1
MaxCheckpoints == 2
MaxOrphans == 4
MaxPrepared == 2
MaxLog == 3

(* Program constants *)

Window == 60
default_rate_limit == 5
monitoring_interval == 300
WarningPct == 80
CriticalPct == 95
BaseThresholdPct == 90
VeryComplexThresholdPct == 70
SimpleThresholdPct == 95
MaxTokenBudget == 1000000

(* Input domains *)

Projects == {"p1", "p2"}
Tasks == {"t1", "t2"}
Budgets == {10, 12}
UsageAmounts == {2, 12}
ActualAmounts == {8, 10}
RateLimits == {1, 2}
Lates == {0, 1, 999}
OperationTypes == {"repo_setup", "status_report"}
EstimatedInputs == {1000}
ActualInputs == {0, 500, 2000}
ReadLates == {0, 1}
Complexities == {"simple", "complex", "very_complex"}
FileCounts == {10, 21, 51}
TaskInputs == {<<"very_complex", 10>>, <<"complex", 10>>, <<"simple", 0>>}
TickStep == Window \div 2

VARIABLES
    now,               \* time.time(), in seconds
    projects,          \* table projects: project_id -> token_budget
    tasks,             \* table tasks: task_id -> row
    token_usage,       \* table token_usage, in insertion order
    call_history,      \* RateLimiter.call_history
    rate_limits,       \* RateLimiter.rate_limits
    active_projects,   \* GovernorAgent.active_projects
    paused_tasks,      \* GovernorAgent.paused_tasks
    monitoring_active, \* GovernorAgent.monitoring_active
    enforce_pc,        \* position of the _enforce_rate_limits coroutine
    enforce_todo,      \* what is left of its list(self.paused_tasks)
    enforce_wake,      \* when its asyncio.sleep ends
    enforce_resumed,   \* its local resumed_tasks, during a pass
    enforce_free,      \* the free slots of each project when the pass began
    sweep_pc,          \* position of the _manage_checkpoints coroutine
    sweep_wake,        \* when its asyncio.sleep ends
    usage_pc,          \* position of the _monitor_token_usage coroutine
    usage_wake,        \* when its asyncio.sleep ends
    progress_pc,       \* position of the _monitor_task_progress coroutine
    progress_wake,     \* when its asyncio.sleep ends
    start_pc,          \* position of the start_monitoring call
    track_pc,          \* position of the caller of track_task_execution, per task
    usage_todo,        \* what the set iterator of _monitor_token_usage has left
    usage_used,        \* the size of active_projects the iterator was created with
    orphans,           \* coroutines of an earlier start_monitoring still alive
    completions,       \* per task, how often handle_task_completion stored it COMPLETED (up to 2)
    prepared,          \* the URIs prepare_checkpoint has returned, in order
    checkpoint_text,   \* what create_checkpoint has written, per file
    log_file,          \* the lines of CCUsageTracker.log_file, in order
    tracking,          \* the tracking_info dicts handed out and not yet completed
    checkpoint_files,  \* the files under CheckpointManager.storage_path
    admitted,          \* the admissions granted to direct callers of the limiter so far
    call               \* the last operation and what it returned

vars == <<now, projects, tasks, token_usage, call_history, rate_limits,
          active_projects, paused_tasks, monitoring_active, enforce_pc,
          enforce_todo, enforce_wake, sweep_pc, sweep_wake, usage_pc,
          usage_wake, progress_pc, progress_wake, start_pc, checkpoint_files,
          admitted, enforce_resumed, enforce_free, track_pc, usage_todo,
          usage_used, orphans, completions, prepared, checkpoint_text,
          log_file, tracking, call>>

storeVars == <<projects, tasks, token_usage>>
limiterVars == <<call_history, rate_limits>>
enforceVars == <<enforce_pc, enforce_todo, enforce_resumed, enforce_free, enforce_wake>>
uriVars == <<prepared, checkpoint_text>>
trackerVars == <<log_file, tracking>>
auxVars == <<completions, uriVars, trackerVars>>
raceVars == <<track_pc, usage_todo, usage_used, orphans, auxVars>>
sweepVars == <<sweep_pc, sweep_wake>>
usageVars == <<usage_pc, usage_wake>>
progressVars == <<progress_pc, progress_wake>>
loopVars == <<enforceVars, sweepVars, usageVars, progressVars, start_pc>>
engineVars == <<active_projects, paused_tasks, monitoring_active, loopVars>>

-----------------------------------------------------------------------------
(* What an operation returned: op, its argument, the status tag (or the    *)
(* boolean of a limiter call), a number (retry_after, tokens) and, for an  *)
(* operation on a Task object, that object's checkpoint_state afterwards.  *)

Ret(op, arg, status, val, cp) ==
    [op |-> op, arg |-> arg, status |-> status, val |-> val, cp |-> cp]

\* The clock, the API routes and set_rate_limit return nothing the engine sees.
NoCall == Ret("", "", "", 0, "")

Max(a, b) == IF a >= b THEN a ELSE b

-----------------------------------------------------------------------------
(* RateLimiter *)

RateLimitOf(p) ==
    IF p \in DOMAIN rate_limits THEN rate_limits[p] ELSE default_rate_limit

\* An eviction that also drops the timestamp exactly one window old.
RECURSIVE EvictThrough(_, _)
EvictThrough(history, cutoff_time) ==
    IF history # <<>> /\ Head(history) <= cutoff_time
    THEN EvictThrough(Tail(history), cutoff_time)
    ELSE history

RECURSIVE Evict(_, _)
Evict(history, cutoff_time) ==
    IF history # <<>> /\ Head(history) < cutoff_time
    THEN Evict(Tail(history), cutoff_time)
    ELSE history

Cleaned(p) == Evict(call_history[p], now - Window)

\* An off-by-one can_proceed: one call more than the limit gets through.
can_proceed_le(p) == Len(Cleaned(p)) <= RateLimitOf(p)

can_proceed(p) == Len(Cleaned(p)) < RateLimitOf(p)

\* An admission that puts the new timestamp at the front.
HistoryAfterFront(p) == IF can_proceed(p) THEN <<now>> \o Cleaned(p) ELSE Cleaned(p)

HistoryAfter(p) == IF can_proceed(p) THEN Append(Cleaned(p), now) ELSE Cleaned(p)

\* The effect of one can_execute(p) on the limiter.
can_execute_within(p, cap) ==
    /\ Len(HistoryAfter(p)) <= cap
    /\ call_history' = [call_history EXCEPT ![p] = HistoryAfter(p)]
    /\ UNCHANGED rate_limits

can_execute(p) == can_execute_within(p, MaxHistory)

\* A retry-after without the max(0, ...).
retry_after_at_unclamped(h, late) ==
    IF h = <<>> THEN 0 ELSE (1000 * (Window - (now - Head(h))) - late) \div 1000

\* get_retry_after's arithmetic when time.time() reads `late` milliseconds
\* past the clock's whole second: int(max(0, 60 - (time.time() - history[0]))).
retry_after_at(h, late) ==
    IF h = <<>> THEN 0 ELSE Max(0, 1000 * (Window - (now - Head(h))) - late) \div 1000

\* get_retry_after(p), read from a history h on the whole second.
get_retry_after(h) == retry_after_at(h, 0)

\* get_retry_after(p), called directly.
GetRetryAfter(p, late) ==
    /\ call' = Ret("get_retry_after", p, "", retry_after_at(call_history[p], late), "")
    /\ UNCHANGED <<now, admitted, raceVars, storeVars, limiterVars, engineVars, checkpoint_files>>

\* The log of the admissions granted to direct callers of the limiter.
AdmittedAfter(p) ==
    IF can_proceed(p) THEN Append(admitted[p], now) ELSE admitted[p]

\* can_execute(p), called directly, with histories as long as the default
\* limit lets them grow.
CanExecuteToDefault(p) ==
    /\ can_execute_within(p, default_rate_limit)
    /\ admitted' = admitted
    /\ call' = Ret("can_execute", p, IF can_proceed(p) THEN "true" ELSE "false", 0, "")
    /\ UNCHANGED <<now, raceVars, storeVars, engineVars, checkpoint_files>>

\* can_execute(p), called directly.
CanExecute(p) ==
    /\ can_execute(p)
    /\ admitted' = [admitted EXCEPT ![p] = AdmittedAfter(p)]
    /\ call' = Ret("can_execute", p, IF can_proceed(p) THEN "true" ELSE "false", 0, "")
    /\ UNCHANGED <<now, raceVars, storeVars, engineVars, checkpoint_files>>

\* is_rate_limited(p), called directly.
IsRateLimited(p) ==
    /\ can_execute(p)
    /\ admitted' = [admitted EXCEPT ![p] = AdmittedAfter(p)]
    /\ call' = Ret("is_rate_limited", p, IF can_proceed(p) THEN "false" ELSE "true", 0, "")
    /\ UNCHANGED <<now, raceVars, storeVars, engineVars, checkpoint_files>>

\* A set_rate_limit that overrides the limit of every project.
SetRateLimitAll(p, n) ==
    /\ rate_limits' = [q \in Projects |-> n]
    /\ call' = NoCall
    /\ UNCHANGED <<now, storeVars, engineVars, checkpoint_files, call_history, admitted, raceVars>>

SetRateLimit(p, n) ==
    /\ rate_limits' = [q \in DOMAIN rate_limits \cup {p} |->
                          IF q = p THEN n ELSE rate_limits[q]]
    /\ call' = NoCall
    /\ UNCHANGED <<now, storeVars, engineVars, checkpoint_files, call_history, admitted, raceVars>>

-----------------------------------------------------------------------------
(* The clock *)

Tick ==
    /\ now + TickStep <= MaxTicks * TickStep
    /\ now' = now + TickStep
    /\ call' = NoCall
    /\ UNCHANGED <<admitted, raceVars, storeVars, limiterVars, engineVars, checkpoint_files>>

-----------------------------------------------------------------------------
(* The stores *)

RECURSIVE SumUsage(_, _)
SumUsage(records, p) ==
    IF records = <<>> THEN 0
    ELSE (IF Head(records).project_id = p THEN Head(records).tokens_used ELSE 0)
         + SumUsage(Tail(records), p)

\* TokenUsageRepository.get_project_usage
get_project_usage(p) == SumUsage(token_usage, p)

\* A TokenUsageRepository.create that takes a dict as well as a TokenUsage.
token_repo_create_ok_any(kind) == kind \in {"TokenUsage", "dict"}

\* TokenUsageRepository.create reads usage.usage_id, usage.project_id, ...: it
\* takes a TokenUsage model, and a plain dict has none of these attributes.
token_repo_create_ok(kind) == kind = "TokenUsage"

UsageRecord(p, t, n, op) ==
    [project_id |-> p, task_id |-> t, tokens_used |-> n, operation_type |-> op]

\* A Task object as TaskRepository._row_to_task builds it from the row: every
\* enum field holds an enum member.  raw names the fields that were later
\* assigned a plain str (pydantic does not validate an assignment).
Load(t) ==
    [row |-> tasks[t], raw |-> {}]

\* TaskRepository.update reads complexity.value, checkpoint_state.value and
\* status.value, which a plain str does not have.
task_repo_update_ok(obj) ==
    obj.raw \cap {"complexity", "checkpoint_state", "status"} = {}

Stored(t, obj) ==
    IF t \in DOMAIN tasks THEN [tasks EXCEPT ![t] = obj.row] ELSE tasks

\* The clock for behaviours of unbounded length: TickStep seconds pass and
\* times are written relative to the present, so every recorded time moves
\* TickStep into the past.  The code reads a recorded time only through its
\* distance to time.time(): a call older than the window is evicted whatever its
\* age, and a sleep that is over is over, so older times are kept at a horizon.
Aged(time, horizon) == Max(time - TickStep, horizon)

Elapse ==
    /\ call_history' = [p \in DOMAIN call_history |->
                           [i \in 1..Len(call_history[p]) |->
                               Aged(call_history[p][i], now - Window - TickStep)]]
    /\ enforce_wake' = Aged(enforce_wake, now)
    /\ sweep_wake' = Aged(sweep_wake, now)
    /\ usage_wake' = Aged(usage_wake, now)
    /\ progress_wake' = Aged(progress_wake, now)
    /\ call' = NoCall
    /\ UNCHANGED <<now, admitted, raceVars, storeVars, rate_limits, active_projects,
                   paused_tasks, monitoring_active, enforce_pc, enforce_todo,
                   enforce_resumed, enforce_free, sweep_pc, usage_pc, progress_pc,
                   start_pc, checkpoint_files>>

-----------------------------------------------------------------------------
(* The API routes that write the stores *)

\* POST /tasks/register
ApiRegisterTask(t, p, in) ==
    /\ t \notin DOMAIN tasks
    /\ tasks' = [u \in DOMAIN tasks \cup {t} |->
                    IF u = t
                    THEN [project_id |-> p, complexity |-> in[1],
                          estimated_tokens |-> in[2], actual_tokens |-> 0,
                          checkpoint_state |-> "none", status |-> "pending",
                          completed_at |-> -1]
                    ELSE tasks[u]]
    /\ call' = NoCall
    /\ UNCHANGED <<admitted, raceVars, now, projects, token_usage, limiterVars, engineVars, checkpoint_files>>

\* PUT /tasks/{task_id} with status
ApiUpdateTaskStatus(t, s) ==
    /\ t \in DOMAIN tasks
    /\ tasks[t].status # s
    /\ tasks' = [tasks EXCEPT ![t].status = s]
    /\ call' = NoCall
    /\ UNCHANGED <<admitted, raceVars, now, projects, token_usage, limiterVars, engineVars, checkpoint_files>>

\* POST /tasks/{task_id}/resume: the status is assigned the plain str
\* "pending" and the task goes to TaskRepository.update.
ApiResumeTask(t) ==
    /\ IF t \notin DOMAIN tasks
       THEN /\ call' = Ret("api_resume_task", t, "404", 0, "")
            /\ UNCHANGED tasks
       ELSE IF tasks[t].status # "paused"
       THEN /\ call' = Ret("api_resume_task", t, "400", 0, "")
            /\ UNCHANGED tasks
       ELSE LET resumed == [Load(t) EXCEPT !.row.status = "pending",
                                           !.raw = @ \cup {"status"}] IN
            IF task_repo_update_ok(resumed)
            THEN /\ tasks' = Stored(t, resumed)
                 /\ call' = Ret("api_resume_task", t, "200", 0, "")
            ELSE /\ call' = Ret("api_resume_task", t, "500", 0, "")
                 /\ UNCHANGED tasks
    /\ UNCHANGED <<admitted, raceVars, now, projects, token_usage, limiterVars, engineVars,
                   checkpoint_files>>

\* PUT /tasks/{task_id} with actual_tokens
ApiUpdateTaskActual(t, n) ==
    /\ t \in DOMAIN tasks
    /\ tasks[t].actual_tokens # n
    /\ tasks' = [tasks EXCEPT ![t].actual_tokens = n]
    /\ call' = NoCall
    /\ UNCHANGED <<admitted, raceVars, now, projects, token_usage, limiterVars, engineVars, checkpoint_files>>

\* PUT /tasks/{task_id} with checkpoint_state
ApiUpdateTaskCheckpoint(t, c) ==
    /\ t \in DOMAIN tasks
    /\ tasks[t].checkpoint_state # c
    /\ tasks' = [tasks EXCEPT ![t].checkpoint_state = c]
    /\ call' = NoCall
    /\ UNCHANGED <<admitted, raceVars, now, projects, token_usage, limiterVars, engineVars, checkpoint_files>>

\* The token_budget of a request body: <<>> is null, <<n>> the integer n.
\* A budget field that admits zero.
token_budget_field_ge(n) == n >= 0 /\ n <= MaxTokenBudget

\* ProjectCreate.token_budget, ProjectUpdate.token_budget: Field(gt=0, le=1000000)
token_budget_field(n) == n > 0 /\ n <= MaxTokenBudget

\* ProjectCreate: token_budget is required.
ProjectCreate(body) == body # <<>> /\ token_budget_field(body[1])

\* ProjectUpdate: token_budget is Optional, null passes.
ProjectUpdate(body) == body = <<>> \/ token_budget_field(body[1])

\* Project: token_budget: int = Field(gt=0), checked when the object is built.
Project(n) == n > 0

\* POST /projects/register: the body is validated, the Project gets a fresh
\* uuid and goes to ProjectRepository.create.
ApiRegisterProject(p, body) ==
    /\ p \notin DOMAIN projects
    /\ IF ProjectCreate(body) /\ Project(body[1])
       THEN /\ projects' = [q \in DOMAIN projects \cup {p} |->
                               IF q = p THEN body[1] ELSE projects[q]]
            /\ call' = Ret("api_register_project", p, "200", body[1], "")
       ELSE /\ call' = Ret("api_register_project", p, "422", 0, "")
            /\ UNCHANGED projects
    /\ UNCHANGED <<admitted, raceVars, now, tasks, token_usage, limiterVars, engineVars, checkpoint_files>>

\* PUT /projects/{project_id} with token_budget in the body.  A null sets the
\* attribute to None and the UPDATE fails on the column's NOT NULL.
ApiUpdateProject(p, body) ==
    /\ IF ~ProjectUpdate(body)
       THEN /\ call' = Ret("api_update_project", p, "422", 0, "")
            /\ UNCHANGED projects
       ELSE IF p \notin DOMAIN projects
       THEN /\ call' = Ret("api_update_project", p, "404", 0, "")
            /\ UNCHANGED projects
       ELSE IF body = <<>>
       THEN /\ call' = Ret("api_update_project", p, "500", 0, "")
            /\ UNCHANGED projects
       ELSE /\ projects' = [projects EXCEPT ![p] = body[1]]
            /\ call' = Ret("api_update_project", p, "200", body[1], "")
    /\ UNCHANGED <<admitted, raceVars, now, tasks, token_usage, limiterVars, engineVars, checkpoint_files>>

\* DELETE /projects/{project_id}
ApiDeleteProject(p) ==
    /\ IF p \in DOMAIN projects
       THEN /\ projects' = [q \in DOMAIN projects \ {p} |-> projects[q]]
            /\ call' = Ret("api_delete_project", p, "200", 0, "")
       ELSE /\ call' = Ret("api_delete_project", p, "404", 0, "")
            /\ UNCHANGED projects
    /\ UNCHANGED <<admitted, raceVars, now, tasks, token_usage, limiterVars, engineVars, checkpoint_files>>

\* A usage field that admits negative counts.
tokens_used_field_any(n) == n \in Int

\* TokenUsageCreate.tokens_used, TokenUsage.tokens_used: Field(ge=0)
tokens_used_field(n) == n >= 0

\* POST /tokens/usage
ApiRecordUsage(p, n) ==
    /\ IF tokens_used_field(n)
       THEN /\ Len(token_usage) < MaxUsage
            /\ token_repo_create_ok("TokenUsage")
            /\ token_usage' = Append(token_usage, UsageRecord(p, "", n, "api"))
            /\ call' = Ret("api_record_usage", p, "200", n, "")
       ELSE /\ call' = Ret("api_record_usage", p, "422", 0, "")
            /\ UNCHANGED token_usage
    /\ UNCHANGED <<admitted, raceVars, now, projects, tasks, limiterVars, engineVars, checkpoint_files>>

-----------------------------------------------------------------------------
(* GovernorAgent: the request-triggered operations *)

\* A remaining budget that forgets the recorded usage.
remaining_ignoring_usage(p) == projects[p]

\* _check_project_budget: remaining_tokens = project.token_budget - used_tokens
remaining_tokens(p) == projects[p] - get_project_usage(p)

\* A budget check that lets a task of an unknown project through.
check_project_budget_unknown_allowed(p, estimated_tokens) ==
    IF p \notin DOMAIN projects THEN "allowed"
    ELSE IF estimated_tokens > remaining_tokens(p) THEN "insufficient"
    ELSE "allowed"

\* A budget check that also blocks the estimate that exactly fits.
check_project_budget_ge(p, estimated_tokens) ==
    IF p \notin DOMAIN projects THEN "not_found"
    ELSE IF estimated_tokens >= remaining_tokens(p) THEN "insufficient"
    ELSE "allowed"

\* _check_project_budget: "not_found", "insufficient" or "allowed".
check_project_budget(p, estimated_tokens) ==
    IF p \notin DOMAIN projects THEN "not_found"
    ELSE IF estimated_tokens > remaining_tokens(p) THEN "insufficient"
    ELSE "allowed"

\* _should_request_checkpoint: progress >= base_threshold, in hundredths.
base_threshold(complexity) ==
    IF complexity = "very_complex" THEN VeryComplexThresholdPct
    ELSE IF complexity = "simple" THEN SimpleThresholdPct
    ELSE BaseThresholdPct

should_request_checkpoint(row) ==
    /\ row.estimated_tokens > 0
    /\ row.actual_tokens > 0
    /\ row.actual_tokens * 100 >= base_threshold(row.complexity) * row.estimated_tokens

\* An alert check that appends the warning as well as the critical alert.
check_budget_alerts_both(p) ==
    IF p \notin DOMAIN projects THEN <<>>
    ELSE (IF get_project_usage(p) * 100 >= CriticalPct * projects[p]
          THEN <<"critical">> ELSE <<>>)
         \o (IF get_project_usage(p) * 100 >= WarningPct * projects[p]
             THEN <<"warning">> ELSE <<>>)

\* _check_budget_alerts: the levels of the alerts it returns.  used / budget
\* is compared with the thresholds in hundredths.
alert_levels(used_tokens, token_budget) ==
    IF used_tokens * 100 >= CriticalPct * token_budget THEN <<"critical">>
    ELSE IF used_tokens * 100 >= WarningPct * token_budget THEN <<"warning">>
    ELSE <<>>

check_budget_alerts(p) ==
    IF p \notin DOMAIN projects THEN <<>>
    ELSE alert_levels(get_project_usage(p), projects[p])

\* _check_budget_alerts(project_id), called on its own.
CheckBudgetAlerts(p) ==
    /\ call' = Ret("check_budget_alerts", p,
                   IF check_budget_alerts(p) = <<>> THEN "none"
                   ELSE check_budget_alerts(p)[1],
                   Len(check_budget_alerts(p)), "")
    /\ UNCHANGED <<admitted, raceVars, now, storeVars, limiterVars, engineVars, checkpoint_files>>

\* register_project
RegisterProject(p, b) ==
    /\ IF p \in DOMAIN projects
       THEN \* INSERT fails on the primary key; the handler re-raises
            /\ call' = Ret("register_project", p, "raised", 0, "")
            /\ UNCHANGED <<projects, active_projects>>
       ELSE /\ projects' = [q \in DOMAIN projects \cup {p} |->
                               IF q = p THEN b ELSE projects[q]]
            /\ active_projects' = active_projects \cup {p}
            /\ call' = Ret("register_project", p, "registered", b, "")
    /\ UNCHANGED <<admitted, raceVars, now, tasks, token_usage, limiterVars, paused_tasks,
                   monitoring_active, loopVars, checkpoint_files>>

\* _check_project_budget: the dict it returns when the estimate does not fit.
insufficient_budget(p, estimated_tokens) ==
    [allowed |-> FALSE,
     reason |-> "Insufficient token budget",
     recommendation |-> "Increase budget or optimize token usage",
     required |-> estimated_tokens,
     available |-> remaining_tokens(p)]

\* track_task_execution: the outcome it returns when the budget check failed.
\* It copies reason and recommendation out of budget_check and nothing else.
Blocked(t, task, budget_check) ==
    [op |-> "track_task_execution", arg |-> t, status |-> "blocked", val |-> 0,
     cp |-> task.row.checkpoint_state,
     reason |-> budget_check.reason,
     recommendation |-> budget_check.recommendation]

\* A blocked outcome that also pauses the task.
TrackBlockedPausing(t, task, budget_check) ==
    /\ IF budget_check = "not_found"
       THEN call' = Ret("track_task_execution", t, "error", 0, task.row.checkpoint_state)
       ELSE call' = Blocked(t, task, insufficient_budget(task.row.project_id,
                                                         task.row.estimated_tokens))
    /\ tasks' = Stored(t, [task EXCEPT !.row.status = "paused"])
    /\ paused_tasks' = paused_tasks \cup {t}

\* track_task_execution: the budget check failed.
TrackBlocked(t, task, budget_check) ==
    /\ IF budget_check = "not_found"
       THEN \* budget_check["recommendation"] is a KeyError
            call' = Ret("track_task_execution", t, "error", 0, task.row.checkpoint_state)
       ELSE call' = Blocked(t, task, insufficient_budget(task.row.project_id,
                                                         task.row.estimated_tokens))
    /\ UNCHANGED <<tasks, paused_tasks>>

\* A rate-limited outcome that forgets the paused set.
TrackPausedNotTracked(t, task) ==
    /\ tasks' = Stored(t, [task EXCEPT !.row.status = "paused"])
    /\ call' = Ret("track_task_execution", t, "rate_limited",
                   get_retry_after(HistoryAfter(task.row.project_id)),
                   task.row.checkpoint_state)
    /\ UNCHANGED paused_tasks

\* track_task_execution: the rate limiter denied, after can_execute.
TrackPaused(t, task) ==
    LET paused == [task EXCEPT !.row.status = "paused"] IN
    IF task_repo_update_ok(paused)
    THEN /\ tasks' = Stored(t, paused)
         /\ paused_tasks' = paused_tasks \cup {t}
         /\ call' = Ret("track_task_execution", t, "rate_limited",
                        get_retry_after(HistoryAfter(task.row.project_id)),
                        paused.row.checkpoint_state)
    ELSE /\ call' = Ret("track_task_execution", t, "error", 0, paused.row.checkpoint_state)
         /\ UNCHANGED <<tasks, paused_tasks>>

\* An admission that marks the approved task as started.
TrackProceedStarting(t, task) ==
    IF should_request_checkpoint(task.row)
    THEN LET requested == [task EXCEPT !.row.checkpoint_state = "requested",
                                       !.raw = @ \cup {"checkpoint_state"}] IN
         IF task_repo_update_ok(requested)
         THEN /\ tasks' = Stored(t, requested)
              /\ call' = Ret("track_task_execution", t, "checkpoint_requested", 0,
                             requested.row.checkpoint_state)
              /\ UNCHANGED paused_tasks
         ELSE /\ call' = Ret("track_task_execution", t, "error", 0,
                             requested.row.checkpoint_state)
              /\ UNCHANGED <<tasks, paused_tasks>>
    ELSE /\ call' = Ret("track_task_execution", t, "approved",
                        task.row.estimated_tokens, task.row.checkpoint_state)
         /\ tasks' = Stored(t, [task EXCEPT !.row.status = "in_progress"])
         /\ UNCHANGED paused_tasks

\* track_task_execution: the checkpoint check and the approval.
TrackProceed(t, task) ==
    IF should_request_checkpoint(task.row)
    THEN LET requested == [task EXCEPT !.row.checkpoint_state = "requested",
                                       !.raw = @ \cup {"checkpoint_state"}] IN
         IF task_repo_update_ok(requested)
         THEN /\ tasks' = Stored(t, requested)
              /\ call' = Ret("track_task_execution", t, "checkpoint_requested", 0,
                             requested.row.checkpoint_state)
              /\ UNCHANGED paused_tasks
         ELSE /\ call' = Ret("track_task_execution", t, "error", 0,
                             requested.row.checkpoint_state)
              /\ UNCHANGED <<tasks, paused_tasks>>
    ELSE /\ call' = Ret("track_task_execution", t, "approved",
                        task.row.estimated_tokens, task.row.checkpoint_state)
         /\ UNCHANGED <<tasks, paused_tasks>>

\* A track_task_execution that asks the rate limiter before it checks the budget.
TrackRateFirst(t) ==
    /\ t \in DOMAIN tasks
    /\ LET task == Load(t)
           p == task.row.project_id
           budget_check == check_project_budget(p, task.row.estimated_tokens)
       IN  /\ can_execute(p)
           /\ IF ~can_proceed(p) THEN TrackPaused(t, task)
              ELSE IF budget_check # "allowed" THEN TrackBlocked(t, task, budget_check)
              ELSE TrackProceed(t, task)
    /\ UNCHANGED <<admitted, raceVars, now, projects, token_usage, active_projects,
                   monitoring_active, loopVars, checkpoint_files>>

\* track_task_execution(task), task being the stored task t as loaded.
TrackTaskExecution(t) ==
    /\ t \in DOMAIN tasks
    /\ LET task == Load(t)
           p == task.row.project_id
           budget_check == check_project_budget(p, task.row.estimated_tokens)
       IN  IF budget_check # "allowed"
           THEN /\ TrackBlocked(t, task, budget_check)
                /\ UNCHANGED limiterVars
           ELSE /\ can_execute(p)
                /\ IF ~can_proceed(p) THEN TrackPaused(t, task)
                   ELSE TrackProceed(t, task)
    /\ UNCHANGED <<admitted, raceVars, now, projects, token_usage, active_projects,
                   monitoring_active, loopVars, checkpoint_files>>

\* A budget check that counts the estimates already let through against the
\* budget.
TrackCheckBudgetReserving(t) ==
    /\ t \in DOMAIN tasks
    /\ track_pc[t] = "idle"
    /\ LET task == Load(t)
           p == task.row.project_id
           holders == {u \in DOMAIN tasks : /\ tasks[u].project_id = p
                                            /\ track_pc[u] # "idle"}
           RECURSIVE Sum(_)
           Sum(S) == IF S = {} THEN 0
                     ELSE LET u == CHOOSE v \in S : TRUE
                          IN  tasks[u].estimated_tokens + Sum(S \ {u})
           budget_check == check_project_budget(p, task.row.estimated_tokens + Sum(holders))
       IN  IF budget_check # "allowed"
           THEN /\ TrackBlocked(t, task, budget_check)
                /\ UNCHANGED track_pc
           ELSE /\ track_pc' = [track_pc EXCEPT ![t] = "checked"]
                /\ call' = Ret("check_project_budget", t, "allowed", 0, "")
                /\ UNCHANGED <<tasks, paused_tasks>>
    /\ UNCHANGED <<admitted, usage_todo, usage_used, orphans, auxVars, now, projects, token_usage,
                   limiterVars, active_projects, monitoring_active, loopVars,
                   checkpoint_files>>

\* track_task_execution(task) taken one await at a time, for callers that run
\* side by side.  First part: _check_project_budget has read the project and
\* its usage; a failed check returns at once, a passed one leaves the call
\* suspended before the rate limiter.
TrackCheckBudget(t) ==
    /\ t \in DOMAIN tasks
    /\ track_pc[t] = "idle"
    /\ LET task == Load(t)
           p == task.row.project_id
           budget_check == check_project_budget(p, task.row.estimated_tokens)
       IN  IF budget_check # "allowed"
           THEN /\ TrackBlocked(t, task, budget_check)
                /\ UNCHANGED track_pc
           ELSE /\ track_pc' = [track_pc EXCEPT ![t] = "checked"]
                /\ call' = Ret("check_project_budget", t, "allowed", 0, "")
                /\ UNCHANGED <<tasks, paused_tasks>>
    /\ UNCHANGED <<admitted, usage_todo, usage_used, orphans, auxVars, now, projects, token_usage,
                   limiterVars, active_projects, monitoring_active, loopVars,
                   checkpoint_files>>

\* Second part: the rate limiter, the checkpoint check and the return.  A
\* caller that was approved goes on to run its task.
TrackDecide(t) ==
    /\ t \in DOMAIN tasks
    /\ track_pc[t] = "checked"
    /\ LET task == Load(t)
           p == task.row.project_id
       IN  /\ can_execute(p)
           /\ IF ~can_proceed(p) THEN TrackPaused(t, task)
              ELSE TrackProceed(t, task)
    /\ track_pc' = [track_pc EXCEPT ![t] = IF call'.status = "approved"
                                           THEN "running" ELSE "idle"]
    /\ UNCHANGED <<admitted, usage_todo, usage_used, orphans, auxVars, now, projects, token_usage,
                   active_projects, monitoring_active, loopVars, checkpoint_files>>

\* handle_task_completion: estimated_tokens / actual_tokens, or 1.0 when
\* actual_tokens is 0; the quotient is kept as a fraction.
efficiency(estimated_tokens, actual_tokens) ==
    IF actual_tokens > 0
    THEN [num |-> estimated_tokens, den |-> actual_tokens]
    ELSE [num |-> 1, den |-> 1]

\* handle_task_completion: the outcome it returns when every step succeeded,
\* the alerts being those of the usage with the new record in it.
Completed(t, n, row) ==
    [op |-> "handle_task_completion", arg |-> t, status |-> "completed", val |-> n,
     cp |-> "",
     efficiency |-> efficiency(row.estimated_tokens, n),
     alerts |-> IF row.project_id \notin DOMAIN projects THEN <<>>
                ELSE alert_levels(get_project_usage(row.project_id) + n,
                                  projects[row.project_id])]

\* handle_task_completion(task_id, actual_tokens)
handle_task_completion(t, n) ==
    /\ IF t \notin DOMAIN tasks
       THEN /\ call' = Ret("handle_task_completion", t, "error", n, "")
            /\ UNCHANGED <<tasks, token_usage>>
       ELSE LET task == Load(t)
                done == [task EXCEPT !.row.actual_tokens = n,
                                     !.row.status = "completed",
                                     !.row.completed_at = now]
            IN  IF ~task_repo_update_ok(done)
                THEN /\ call' = Ret("handle_task_completion", t, "error", n, "")
                     /\ UNCHANGED <<tasks, token_usage>>
                ELSE /\ tasks' = Stored(t, done)
                     /\ IF token_repo_create_ok("dict")
                        THEN /\ Len(token_usage) < MaxUsage
                             /\ token_usage' = Append(token_usage,
                                    UsageRecord(done.row.project_id, t, n, "task_completion"))
                             /\ call' = Completed(t, n, done.row)
                        ELSE /\ call' = Ret("handle_task_completion", t, "error", n, "")
                             /\ UNCHANGED token_usage
    /\ UNCHANGED <<admitted, now, projects, limiterVars, engineVars, checkpoint_files>>

\* handle_task_completion, called by the owner of the engine.
HandleTaskCompletion(t, n) ==
    /\ handle_task_completion(t, n)
    /\ UNCHANGED raceVars

\* The same call, with the count of the calls that stored the task COMPLETED
\* kept beside it.
HandleTaskCompletionCounted(t, n) ==
    /\ handle_task_completion(t, n)
    /\ completions' = [completions EXCEPT
                          ![t] = IF t \in DOMAIN tasks /\ task_repo_update_ok(Load(t))
                                 THEN IF @ < 2 THEN @ + 1 ELSE 2
                                 ELSE @]
    /\ UNCHANGED <<track_pc, usage_todo, usage_used, orphans, uriVars, trackerVars>>

\* get_project_status(project_id): its one write is is_rate_limited's.
\* get_project_status as it would be with a limiter query that only looks.
GetProjectStatusLooking(p) ==
    /\ IF p \notin DOMAIN projects
       THEN call' = Ret("get_project_status", p, "error", 0, "")
       ELSE call' = Ret("get_project_status", p,
                        IF can_proceed(p) THEN "not_limited" ELSE "limited",
                        get_project_usage(p), "")
    /\ UNCHANGED <<admitted, raceVars, now, storeVars, limiterVars, engineVars, checkpoint_files>>

GetProjectStatus(p) ==
    /\ IF p \notin DOMAIN projects
       THEN /\ call' = Ret("get_project_status", p, "error", 0, "")
            /\ UNCHANGED limiterVars
       ELSE /\ can_execute(p)
            /\ call' = Ret("get_project_status", p,
                           IF can_proceed(p) THEN "not_limited" ELSE "limited",
                           get_project_usage(p), "")
    /\ UNCHANGED <<admitted, raceVars, now, storeVars, engineVars, checkpoint_files>>

-----------------------------------------------------------------------------
(* CheckpointManager *)

\* The file create_checkpoint writes for a task: storage_path, then task_id
\* and datetime.utcnow().timestamp(), read `late` milliseconds past the
\* clock's whole second.
checkpoint_file_at(t, late) == <<t, now, late>>

checkpoint_file(t) == checkpoint_file_at(t, 0)

\* prepare_checkpoint(task): "file://", then storage_path, task_id and the
\* clock reading.
prepare_checkpoint(t, late) == [scheme |-> "file://", path |-> <<t, now, late>>]

\* str(checkpoint_file): the path, without a scheme.
str_path(file) == [scheme |-> "", path |-> file]

\* create_checkpoint: checkpoint_data.  The stored tasks of the model carry
\* no subtasks; completion_percentage is the quotient actual * 100 over
\* estimated, kept as its two terms.
checkpoint_data(t, row) ==
    [task_id |-> t,
     status |-> row.status,
     estimated_tokens |-> row.estimated_tokens,
     actual_tokens |-> row.actual_tokens,
     completion_percentage |-> IF row.estimated_tokens > 0
                               THEN <<row.actual_tokens * 100, row.estimated_tokens>>
                               ELSE <<0, 1>>,
     project_id |-> row.project_id,
     complexity |-> row.complexity,
     subtasks |-> <<>>]

\* load_checkpoint(checkpoint_uri): "file://" is cut out of the string, and
\* the file at that path is read; None when there is no such file.
load_checkpoint(uri) ==
    IF uri.path \in DOMAIN checkpoint_text
    THEN <<checkpoint_text[uri.path]>>
    ELSE <<>>

\* create_checkpoint(task): the Task object afterwards.  Nothing writes it back
\* to the task store.
Checkpointed(task) ==
    [task EXCEPT !.row.checkpoint_state = "saved", !.raw = @ \cup {"checkpoint_state"}]

\* create_checkpoint(task), task being the stored task t as loaded.
CreateCheckpoint(t) ==
    /\ t \in DOMAIN tasks
    /\ Cardinality(checkpoint_files \cup {checkpoint_file(t)}) <= MaxCheckpoints
    /\ checkpoint_files' = checkpoint_files \cup {checkpoint_file(t)}
    /\ call' = Ret("create_checkpoint", t, "checkpoint", 0,
                   Checkpointed(Load(t)).row.checkpoint_state)
    /\ UNCHANGED <<admitted, raceVars, now, storeVars, limiterVars, engineVars>>

\* create_checkpoint(task) raising at one of its steps, task being the stored
\* task t as loaded; except: log, return None.
\*   open  the checkpoint file cannot be created
\*   dump  json.dump fails, the file is left behind
\*   stat  checkpoint_file.stat() fails, the file having gone; the task object
\*         was assigned checkpoint_state and checkpoint_uri two statements before
CreateCheckpointFails(t, failing) ==
    /\ t \in DOMAIN tasks
    /\ Cardinality(checkpoint_files \cup {checkpoint_file(t)}) <= MaxCheckpoints
    /\ checkpoint_files' = IF failing = "dump"
                           THEN checkpoint_files \cup {checkpoint_file(t)}
                           ELSE checkpoint_files
    /\ call' = Ret("create_checkpoint", t, "none", 0,
                   IF failing = "stat"
                   THEN Checkpointed(Load(t)).row.checkpoint_state
                   ELSE Load(t).row.checkpoint_state)
    /\ UNCHANGED <<admitted, raceVars, now, storeVars, limiterVars, engineVars>>

\* prepare_checkpoint(task), called directly.
PrepareCheckpoint(t, late) ==
    /\ Len(prepared) < MaxPrepared
    /\ prepared' = Append(prepared, prepare_checkpoint(t, late))
    /\ call' = [op |-> "prepare_checkpoint", arg |-> t, status |-> "", val |-> 0, cp |-> "",
                uri |-> prepare_checkpoint(t, late)]
    /\ UNCHANGED <<admitted, track_pc, usage_todo, usage_used, orphans, completions,
                   checkpoint_text, trackerVars, now, storeVars, limiterVars, engineVars,
                   checkpoint_files>>

\* create_checkpoint(task), task being the stored task t as loaded, with its
\* reads of the clock told apart: prepare_checkpoint reads it `early`
\* milliseconds past the whole second, the file name `late` milliseconds.
CreateCheckpointAt(t, early, late) ==
    /\ t \in DOMAIN tasks
    /\ early <= late
    /\ Len(prepared) < MaxPrepared
    /\ Cardinality(checkpoint_files \cup {checkpoint_file_at(t, late)}) <= MaxCheckpoints
    /\ LET file == checkpoint_file_at(t, late)
           data == checkpoint_data(t, tasks[t])
       IN  /\ prepared' = Append(prepared, prepare_checkpoint(t, early))
           /\ checkpoint_files' = checkpoint_files \cup {file}
           /\ checkpoint_text' = [f \in DOMAIN checkpoint_text \cup {file} |->
                                     IF f = file THEN data ELSE checkpoint_text[f]]
           /\ call' = [op |-> "create_checkpoint", arg |-> t, status |-> "checkpoint",
                       val |-> 0, cp |-> Checkpointed(Load(t)).row.checkpoint_state,
                       task_checkpoint_uri |-> str_path(file),
                       checkpoint_uri |-> str_path(file),
                       checkpoint_data |-> data]
    /\ UNCHANGED <<admitted, track_pc, usage_todo, usage_used, orphans, completions,
                   trackerVars, now, storeVars, limiterVars, engineVars>>

-----------------------------------------------------------------------------
(* CCUsageTracker *)

\* entry.get(key, default) on a line of the log.
EntryGet(entry, key, default) ==
    IF key \in DOMAIN entry THEN entry[key] ELSE default

\* track_operation: the line it writes.  Of the context the model keeps
\* project_id.
start_entry(operation_type, p, estimated_tokens) ==
    [timestamp |-> now, operation |-> operation_type, phase |-> "start",
     context |-> [project_id |-> p], estimated_tokens |-> estimated_tokens]

\* track_operation: what it returns.
tracking_info(operation_type, estimated_tokens) ==
    [tracking_id |-> <<operation_type, now>>, start_time |-> now,
     estimated_tokens |-> estimated_tokens]

\* A per-operation efficiency that is always estimated over actual.
operation_efficiency_ratio(estimated, actual) ==
    IF estimated > 0 /\ actual > 0
    THEN <<[num |-> estimated, den |-> actual]>>
    ELSE <<>>

\* complete_operation: efficiency, None (the empty sequence) unless both
\* numbers are positive.
operation_efficiency(estimated, actual) ==
    IF estimated > 0 /\ actual > 0
    THEN IF actual > estimated
         THEN <<[num |-> estimated, den |-> actual]>>
         ELSE <<[num |-> actual, den |-> estimated]>>
    ELSE <<>>

\* complete_operation: the line it writes.
complete_entry(info, actual, success) ==
    [timestamp |-> now, tracking_id |-> info.tracking_id, phase |-> "complete",
     estimated_tokens |-> info.estimated_tokens, actual_tokens |-> actual,
     efficiency |-> operation_efficiency(info.estimated_tokens, actual),
     success |-> success]

\* track_operation(operation_type, context, estimated_tokens)
TrackOperation(operation_type, p, estimated_tokens) ==
    /\ Len(log_file) < MaxLog
    /\ log_file' = Append(log_file, start_entry(operation_type, p, estimated_tokens))
    /\ tracking' = tracking \cup {tracking_info(operation_type, estimated_tokens)}
    /\ call' = Ret("track_operation", operation_type, "", estimated_tokens, "")
    /\ UNCHANGED <<admitted, track_pc, usage_todo, usage_used, orphans, completions, uriVars,
                   now, storeVars, limiterVars, engineVars, checkpoint_files>>

\* complete_operation(tracking_info, actual_tokens, success), for a
\* tracking_info that track_operation returned.
CompleteOperation(info, actual_tokens, success) ==
    /\ info \in tracking
    /\ Len(log_file) < MaxLog
    /\ log_file' = Append(log_file, complete_entry(info, actual_tokens, success))
    /\ tracking' = tracking \ {info}
    /\ call' = [op |-> "complete_operation", arg |-> info.tracking_id[1], status |-> "",
                val |-> actual_tokens, cp |-> "",
                estimated_tokens |-> info.estimated_tokens,
                efficiency |-> operation_efficiency(info.estimated_tokens, actual_tokens)]
    /\ UNCHANGED <<admitted, track_pc, usage_todo, usage_used, orphans, completions, uriVars,
                   now, storeVars, limiterVars, engineVars, checkpoint_files>>

\* _read_recent_entries(days): the lines not older than the cutoff.
read_recent_entries(days) ==
    SelectSeq(log_file, LAMBDA entry : entry.timestamp >= now - days * 86400)

RECURSIVE SumOf(_, _, _)
SumOf(entries, key, default) ==
    IF entries = <<>> THEN 0
    ELSE EntryGet(Head(entries), key, default) + SumOf(Tail(entries), key, default)

\* The sum of a list of quotients, as one quotient.
RECURSIVE SumScores(_)
SumScores(scores) ==
    IF scores = <<>> THEN [num |-> 0, den |-> 1]
    ELSE LET rest == SumScores(Tail(scores))
             first == Head(scores)
         IN  [num |-> first.num * rest.den + rest.num * first.den,
              den |-> first.den * rest.den]

\* analyze_efficiency(project_id), the dict it returns.
analyze_efficiency(p) ==
    LET entries == read_recent_entries(7)
        project_entries ==
            SelectSeq(entries, LAMBDA entry :
                EntryGet(EntryGet(entry, "context", <<>>), "project_id", "") = p)
        with_scores ==
            SelectSeq(project_entries, LAMBDA entry : EntryGet(entry, "efficiency", <<>>) # <<>>)
        efficiency_scores == [i \in 1..Len(with_scores) |-> with_scores[i].efficiency[1]]
        total_estimated == SumOf(project_entries, "estimated_tokens", 0)
        total_actual == SumOf(project_entries, "actual_tokens", 0)
    IN  IF project_entries = <<>>
        THEN [status |-> "no_data"]
        ELSE [status |-> "analyzed",
              total_estimated |-> total_estimated,
              total_actual |-> total_actual,
              overall_efficiency |-> IF total_actual > 0
                                     THEN [num |-> total_estimated, den |-> total_actual]
                                     ELSE [num |-> 1, den |-> 1],
              average_efficiency |-> IF efficiency_scores # <<>>
                                     THEN [num |-> SumScores(efficiency_scores).num,
                                           den |-> SumScores(efficiency_scores).den
                                                     * Len(efficiency_scores)]
                                     ELSE [num |-> 1, den |-> 1],
              operations_count |-> Len(project_entries)]

\* analyze_efficiency(project_id), called directly.
AnalyzeEfficiency(p) ==
    /\ call' = [op |-> "analyze_efficiency", arg |-> p,
                status |-> analyze_efficiency(p).status, val |-> 0, cp |-> "",
                result |-> analyze_efficiency(p)]
    /\ UNCHANGED <<admitted, raceVars, now, storeVars, limiterVars, engineVars,
                   checkpoint_files>>

\* _get_default_estimate: the defaults table, 500 for any other type.
defaults(operation_type) ==
    CASE operation_type = "project_creation" -> 500
      [] operation_type = "task_registration" -> 200
      [] operation_type = "checkpoint_save" -> 1000
      [] operation_type = "status_report" -> 100
      [] operation_type = "error_handling" -> 300
      [] operation_type = "pr_creation" -> 800
      [] operation_type = "repo_setup" -> 1500
      [] OTHER -> 500

\* _get_default_estimate(operation_type, context)
get_default_estimate(operation_type, complexity) ==
    CASE complexity = "complex" -> defaults(operation_type) * 2
      [] complexity = "very_complex" -> defaults(operation_type) * 5
      [] OTHER -> defaults(operation_type)

\* _adjust_for_context(base_tokens, operation_type, context).  int(x * 1.5),
\* int(x * 1.8) and int(x * 1.3) of a non-negative int are the integer
\* quotients of 3x by 2, 9x by 5 and 13x by 10.
adjust_for_context(base_tokens, operation_type, complexity, file_count) ==
    LET by_complexity ==
            CASE complexity = "complex" -> (base_tokens * 3) \div 2
              [] complexity = "very_complex" -> base_tokens * 3
              [] OTHER -> base_tokens
    IN  IF operation_type \in {"repo_setup", "pr_creation"}
        THEN IF file_count > 50 THEN (by_complexity * 9) \div 5
             ELSE IF file_count > 20 THEN (by_complexity * 13) \div 10
             ELSE by_complexity
        ELSE by_complexity

\* get_usage_estimate: similar_ops.
similar_ops(operation_type) ==
    SelectSeq(read_recent_entries(30), LAMBDA entry :
        /\ EntryGet(entry, "operation", "") = operation_type
        /\ EntryGet(entry, "phase", "") = "complete"
        /\ EntryGet(entry, "success", FALSE)
        /\ EntryGet(entry, "actual_tokens", 0) > 0)

\* get_usage_estimate(operation_type, context)
get_usage_estimate(operation_type, complexity, file_count) ==
    IF similar_ops(operation_type) = <<>>
    THEN get_default_estimate(operation_type, complexity)
    ELSE adjust_for_context(SumOf(similar_ops(operation_type), "actual_tokens", 0)
                                \div Len(similar_ops(operation_type)),
                            operation_type, complexity, file_count)

\* get_usage_estimate(operation_type, context), called directly.
GetUsageEstimate(operation_type, complexity, file_count) ==
    /\ call' = [op |-> "get_usage_estimate", arg |-> operation_type, status |-> "",
                val |-> get_usage_estimate(operation_type, complexity, file_count),
                cp |-> "", complexity |-> complexity, file_count |-> file_count]
    /\ UNCHANGED <<admitted, raceVars, now, storeVars, limiterVars, engineVars,
                   checkpoint_files>>

-----------------------------------------------------------------------------
(* GovernorAgent: monitoring *)

\* start_monitoring, up to its await of asyncio.gather: the four coroutines
\* are created.  This is the start that finds no coroutine of an earlier
\* start alive; the other one is StartMonitoringAgain.
StartMonitoring ==
    /\ IF monitoring_active
       THEN /\ call' = Ret("start_monitoring", "", "already_active", 0, "")
            /\ UNCHANGED <<monitoring_active, loopVars>>
       ELSE /\ start_pc = "idle"
            /\ enforce_pc = "off"
            /\ sweep_pc = "off"
            /\ usage_pc = "off"
            /\ progress_pc = "off"
            /\ monitoring_active' = TRUE
            /\ enforce_pc' = "test"
            /\ sweep_pc' = "test"
            /\ usage_pc' = "test"
            /\ progress_pc' = "test"
            /\ start_pc' = "gather"
            /\ call' = Ret("start_monitoring", "", "started", 0, "")
            /\ UNCHANGED <<enforce_todo, enforce_wake, enforce_resumed, enforce_free,
                           sweep_wake, usage_wake, progress_wake>>
    /\ UNCHANGED <<admitted, raceVars, now, storeVars, limiterVars, active_projects, paused_tasks,
                   checkpoint_files>>

\* stop_monitoring
StopMonitoring ==
    /\ monitoring_active
    /\ monitoring_active' = FALSE
    /\ call' = Ret("stop_monitoring", "", "", 0, "")
    /\ UNCHANGED <<admitted, raceVars, now, storeVars, limiterVars, active_projects, paused_tasks,
                   loopVars, checkpoint_files>>

\* The free slots of every project's window, as can_execute would count them.
free_slots ==
    [p \in Projects |-> Max(0, RateLimitOf(p) - Len(Cleaned(p)))]

\* _enforce_rate_limits: the end of the for loop, where resumed_tasks is
\* logged and dropped, then asyncio.sleep(60).
EnforceRest(todo, resumed, free) ==
    IF todo = {}
    THEN /\ enforce_pc' = "sleep"
         /\ enforce_wake' = now + 60
         /\ enforce_todo' = {}
         /\ enforce_resumed' = <<>>
         /\ enforce_free' = <<>>
    ELSE /\ enforce_pc' = "iter"
         /\ enforce_todo' = todo
         /\ enforce_resumed' = resumed
         /\ enforce_free' = free
         /\ UNCHANGED enforce_wake

\* A release loop whose while test does not read the monitoring flag.
EnforceTestIgnoresStop ==
    /\ \/ enforce_pc = "test"
       \/ enforce_pc = "sleep" /\ now >= enforce_wake
    /\ EnforceRest(paused_tasks, <<>>, free_slots)
    /\ call' = Ret("enforce_rate_limits", "", "test", 0, "")
    /\ UNCHANGED <<admitted, raceVars, now, storeVars, limiterVars, active_projects, paused_tasks,
                   monitoring_active, sweepVars, usageVars, progressVars, start_pc,
                   checkpoint_files>>

\* _enforce_rate_limits: the while test, at the start and after each sleep,
\* then list(self.paused_tasks).
EnforceTest ==
    /\ \/ enforce_pc = "test"
       \/ enforce_pc = "sleep" /\ now >= enforce_wake
    /\ IF monitoring_active
       THEN EnforceRest(paused_tasks, <<>>, free_slots)
       ELSE /\ enforce_pc' = "off"
            /\ enforce_todo' = {}
            /\ enforce_wake' = 0
            /\ UNCHANGED <<enforce_resumed, enforce_free>>
    /\ call' = Ret("enforce_rate_limits", "", "test", 0, "")
    /\ UNCHANGED <<admitted, raceVars, now, storeVars, limiterVars, active_projects, paused_tasks,
                   monitoring_active, sweepVars, usageVars, progressVars, start_pc,
                   checkpoint_files>>

\* A release loop that re-tests admission and never releases.
EnforceStepKeeps(t) ==
    /\ enforce_pc = "iter"
    /\ t \in enforce_todo
    /\ IF t \in DOMAIN tasks
       THEN can_execute(tasks[t].project_id)
       ELSE UNCHANGED limiterVars
    /\ call' = Ret("enforce_rate_limits", t, "kept", 0, "")
    /\ EnforceRest(enforce_todo \ {t}, enforce_resumed, enforce_free)
    /\ UNCHANGED <<admitted, raceVars, now, storeVars, active_projects, paused_tasks, monitoring_active,
                   sweepVars, usageVars, progressVars, start_pc, checkpoint_files>>

\* A release loop that resumes every paused task it finds without asking
\* the limiter.
EnforceStepUnlimited(t) ==
    /\ enforce_pc = "iter"
    /\ t \in enforce_todo
    /\ IF t \in DOMAIN tasks
       THEN LET task == Load(t)
                pending == [task EXCEPT !.row.status = "pending"]
            IN  /\ tasks' = Stored(t, pending)
                /\ paused_tasks' = paused_tasks \ {t}
                /\ call' = Ret("enforce_rate_limits", t, "resumed", 0, "")
       ELSE /\ call' = Ret("enforce_rate_limits", t, "kept", 0, "")
            /\ UNCHANGED <<tasks, paused_tasks>>
    /\ EnforceRest(enforce_todo \ {t},
                   IF call'.status = "resumed" THEN Append(enforce_resumed, t)
                   ELSE enforce_resumed,
                   enforce_free)
    /\ UNCHANGED <<admitted, raceVars, now, projects, token_usage, limiterVars, active_projects,
                   monitoring_active, sweepVars, usageVars, progressVars, start_pc,
                   checkpoint_files>>

\* _enforce_rate_limits: the body of the for loop for one task id.
EnforceStep(t) ==
    /\ enforce_pc = "iter"
    /\ t \in enforce_todo
    /\ IF t \in DOMAIN tasks
       THEN LET task == Load(t)
                p == task.row.project_id
                pending == [task EXCEPT !.row.status = "pending"]
            IN  /\ can_execute(p)
                /\ IF can_proceed(p) /\ task_repo_update_ok(pending)
                   THEN /\ tasks' = Stored(t, pending)
                        /\ paused_tasks' = paused_tasks \ {t}
                        /\ call' = Ret("enforce_rate_limits", t, "resumed", 0, "")
                   ELSE /\ call' = Ret("enforce_rate_limits", t, "kept", 0, "")
                        /\ UNCHANGED <<tasks, paused_tasks>>
       ELSE /\ call' = Ret("enforce_rate_limits", t, "kept", 0, "")
            /\ UNCHANGED <<tasks, paused_tasks, limiterVars>>
    /\ EnforceRest(enforce_todo \ {t},
                   IF call'.status = "resumed" THEN Append(enforce_resumed, t)
                   ELSE enforce_resumed,
                   enforce_free)
    /\ UNCHANGED <<admitted, raceVars, now, projects, token_usage, active_projects, monitoring_active,
                   sweepVars, usageVars, progressVars, start_pc, checkpoint_files>>

\* _manage_checkpoints: the tasks one pass collects.
tasks_needing_checkpoints ==
    {t \in DOMAIN tasks : /\ tasks[t].project_id \in active_projects
                          /\ tasks[t].checkpoint_state = "requested"}

\* _manage_checkpoints: the while test and one pass, then asyncio.sleep(180).
ManageCheckpoints ==
    /\ \/ sweep_pc = "test"
       \/ sweep_pc = "sleep" /\ now >= sweep_wake
    /\ IF monitoring_active
       THEN LET files == {checkpoint_file(t) : t \in tasks_needing_checkpoints} IN
            /\ Cardinality(checkpoint_files \cup files) <= MaxCheckpoints
            /\ checkpoint_files' = checkpoint_files \cup files
            /\ sweep_pc' = "sleep"
            /\ sweep_wake' = now + 180
            /\ call' = Ret("manage_checkpoints", "", "pass",
                           Cardinality(tasks_needing_checkpoints),
                           IF tasks_needing_checkpoints = {} THEN "" ELSE "saved")
       ELSE /\ sweep_pc' = "off"
            /\ sweep_wake' = 0
            /\ call' = Ret("manage_checkpoints", "", "exit", 0, "")
            /\ UNCHANGED checkpoint_files
    /\ UNCHANGED <<admitted, raceVars, now, storeVars, limiterVars, active_projects, paused_tasks,
                   monitoring_active, enforceVars, usageVars, progressVars, start_pc>>

\* _monitor_token_usage: the while test and one pass, then
\* asyncio.sleep(monitoring_interval).  The pass calls _check_budget_alerts for
\* every active project and drops what it returns.
MonitorTokenUsage ==
    /\ \/ usage_pc = "test"
       \/ usage_pc = "sleep" /\ now >= usage_wake
    /\ IF monitoring_active
       THEN /\ usage_pc' = "sleep"
            /\ usage_wake' = now + monitoring_interval
            /\ call' = Ret("monitor_token_usage", "", "pass", 0, "")
       ELSE /\ usage_pc' = "off"
            /\ usage_wake' = 0
            /\ call' = Ret("monitor_token_usage", "", "exit", 0, "")
    /\ UNCHANGED <<admitted, raceVars, now, storeVars, limiterVars, active_projects, paused_tasks,
                   monitoring_active, enforceVars, sweepVars, progressVars, start_pc,
                   checkpoint_files>>

\* _monitor_token_usage taken one await at a time.  First part: the while
\* test; the for loop creates its iterator over the set active_projects and
\* the body awaits _check_budget_alerts for the first project.
MonitorTokenUsageEnter ==
    /\ \/ usage_pc = "test"
       \/ usage_pc = "sleep" /\ now >= usage_wake
    /\ IF ~monitoring_active
       THEN /\ usage_pc' = "off"
            /\ usage_wake' = 0
            /\ call' = Ret("monitor_token_usage", "", "exit", 0, "")
            /\ UNCHANGED <<usage_todo, usage_used>>
       ELSE IF active_projects = {}
       THEN /\ usage_pc' = "sleep"
            /\ usage_wake' = now + monitoring_interval
            /\ call' = Ret("monitor_token_usage", "", "pass", 0, "")
            /\ UNCHANGED <<usage_todo, usage_used>>
       ELSE \E p \in active_projects :
               /\ usage_pc' = "iter"
               /\ usage_todo' = active_projects \ {p}
               /\ usage_used' = Cardinality(active_projects)
               /\ call' = Ret("monitor_token_usage", p, "check", 0, "")
               /\ UNCHANGED usage_wake
    /\ UNCHANGED <<admitted, track_pc, orphans, auxVars, now, storeVars, limiterVars, active_projects,
                   paused_tasks, monitoring_active, enforceVars, sweepVars, progressVars,
                   start_pc, checkpoint_files>>

\* Second part: the awaited _check_budget_alerts returns and the iterator is
\* asked for the next project.  A set iterator raises RuntimeError (Set changed
\* size during iteration) when the set no longer has the size it was created
\* with; the except branch logs and sleeps 60.
MonitorTokenUsageNext ==
    /\ usage_pc = "iter"
    /\ IF Cardinality(active_projects) # usage_used
       THEN /\ usage_pc' = "sleep"
            /\ usage_wake' = now + 60
            /\ usage_todo' = {}
            /\ usage_used' = 0
            /\ call' = Ret("monitor_token_usage", "", "fault", 0, "")
       ELSE IF usage_todo = {}
       THEN /\ usage_pc' = "sleep"
            /\ usage_wake' = now + monitoring_interval
            /\ usage_todo' = {}
            /\ usage_used' = 0
            /\ call' = Ret("monitor_token_usage", "", "pass", 0, "")
       ELSE \E p \in usage_todo :
               /\ usage_todo' = usage_todo \ {p}
               /\ call' = Ret("monitor_token_usage", p, "check", 0, "")
               /\ UNCHANGED <<usage_pc, usage_wake, usage_used>>
    /\ UNCHANGED <<admitted, track_pc, orphans, auxVars, now, storeVars, limiterVars, active_projects,
                   paused_tasks, monitoring_active, enforceVars, sweepVars, progressVars,
                   start_pc, checkpoint_files>>

\* _monitor_task_progress: the while test and one pass (it only logs), then
\* asyncio.sleep(300).
MonitorTaskProgress ==
    /\ \/ progress_pc = "test"
       \/ progress_pc = "sleep" /\ now >= progress_wake
    /\ IF monitoring_active
       THEN /\ progress_pc' = "sleep"
            /\ progress_wake' = now + 300
            /\ call' = Ret("monitor_task_progress", "", "pass", 0, "")
       ELSE /\ progress_pc' = "off"
            /\ progress_wake' = 0
            /\ call' = Ret("monitor_task_progress", "", "exit", 0, "")
    /\ UNCHANGED <<admitted, raceVars, now, storeVars, limiterVars, active_projects, paused_tasks,
                   monitoring_active, enforceVars, sweepVars, usageVars, start_pc,
                   checkpoint_files>>

\* An iteration of _monitor_token_usage raises inside its for loop (the set of
\* active projects changed under the iteration): except, asyncio.sleep(60).
MonitorTokenUsageFault ==
    /\ \/ usage_pc = "test"
       \/ usage_pc = "sleep" /\ now >= usage_wake
    /\ monitoring_active
    /\ active_projects # {}
    /\ usage_pc' = "sleep"
    /\ usage_wake' = now + 60
    /\ call' = Ret("monitor_token_usage", "", "fault", 0, "")
    /\ UNCHANGED <<admitted, raceVars, now, storeVars, limiterVars, active_projects, paused_tasks,
                   monitoring_active, enforceVars, sweepVars, progressVars, start_pc,
                   checkpoint_files>>

\* A progress monitor whose fault leaves the coroutine: asyncio.gather raises
\* and start_monitoring clears the flag.
MonitorTaskProgressEscapes ==
    /\ \/ progress_pc = "test"
       \/ progress_pc = "sleep" /\ now >= progress_wake
    /\ monitoring_active
    /\ active_projects # {}
    /\ progress_pc' = "off"
    /\ progress_wake' = 0
    /\ monitoring_active' = FALSE
    /\ call' = Ret("monitor_task_progress", "", "fault", 0, "")
    /\ UNCHANGED <<admitted, raceVars, now, storeVars, limiterVars, active_projects, paused_tasks,
                   enforceVars, sweepVars, usageVars, start_pc, checkpoint_files>>

\* An iteration of _monitor_task_progress raises (task_repo.list_by_status
\* fails): except, asyncio.sleep(60).
MonitorTaskProgressFault ==
    /\ \/ progress_pc = "test"
       \/ progress_pc = "sleep" /\ now >= progress_wake
    /\ monitoring_active
    /\ active_projects # {}
    /\ progress_pc' = "sleep"
    /\ progress_wake' = now + 60
    /\ call' = Ret("monitor_task_progress", "", "fault", 0, "")
    /\ UNCHANGED <<admitted, raceVars, now, storeVars, limiterVars, active_projects, paused_tasks,
                   monitoring_active, enforceVars, sweepVars, usageVars, start_pc,
                   checkpoint_files>>

\* An iteration of _manage_checkpoints raises (task_repo.list_by_project
\* fails) before any checkpoint is created: except, asyncio.sleep(60).
ManageCheckpointsFault ==
    /\ \/ sweep_pc = "test"
       \/ sweep_pc = "sleep" /\ now >= sweep_wake
    /\ monitoring_active
    /\ active_projects # {}
    /\ sweep_pc' = "sleep"
    /\ sweep_wake' = now + 60
    /\ call' = Ret("manage_checkpoints", "", "fault", 0, "")
    /\ UNCHANGED <<admitted, raceVars, now, storeVars, limiterVars, active_projects, paused_tasks,
                   monitoring_active, enforceVars, usageVars, progressVars, start_pc,
                   checkpoint_files>>

\* An iteration of _enforce_rate_limits raises while it handles task id t:
\* either task_repo.get_by_id fails, or the limiter admitted the project and
\* task_repo.update fails.  The rest of the list is dropped: except,
\* asyncio.sleep(60).
EnforceFault(t, failing) ==
    /\ enforce_pc = "iter"
    /\ t \in enforce_todo
    /\ \/ /\ failing = "get_by_id"
          /\ UNCHANGED limiterVars
       \/ /\ failing = "update"
          /\ t \in DOMAIN tasks
          /\ can_proceed(tasks[t].project_id)
          /\ can_execute(tasks[t].project_id)
    /\ enforce_pc' = "sleep"
    /\ enforce_wake' = now + 60
    /\ enforce_todo' = {}
    /\ enforce_resumed' = <<>>
    /\ enforce_free' = <<>>
    /\ call' = Ret("enforce_rate_limits", t, "fault", 0, "")
    /\ UNCHANGED <<admitted, raceVars, now, storeVars, active_projects, paused_tasks,
                   monitoring_active, sweepVars, usageVars, progressVars, start_pc,
                   checkpoint_files>>

\* start_monitoring: asyncio.gather returns once the four coroutines are done,
\* and the call returns.
StartMonitoringReturns ==
    /\ start_pc = "gather"
    /\ enforce_pc = "off"
    /\ sweep_pc = "off"
    /\ usage_pc = "off"
    /\ progress_pc = "off"
    /\ start_pc' = "idle"
    /\ call' = Ret("start_monitoring", "", "returned", 0, "")
    /\ UNCHANGED <<admitted, raceVars, now, storeVars, limiterVars, active_projects, paused_tasks,
                   monitoring_active, enforceVars, sweepVars, usageVars, progressVars,
                   checkpoint_files>>

\* The four monitoring coroutines, where each one stands, and how long each
\* sleeps after a pass.
Loops == {"usage", "progress", "sweep", "enforce"}

LoopPc(loop) ==
    CASE loop = "usage" -> usage_pc
      [] loop = "progress" -> progress_pc
      [] loop = "sweep" -> sweep_pc
      [] loop = "enforce" -> enforce_pc

LoopWake(loop) ==
    CASE loop = "usage" -> usage_wake
      [] loop = "progress" -> progress_wake
      [] loop = "sweep" -> sweep_wake
      [] loop = "enforce" -> enforce_wake

LoopSleep(loop) ==
    CASE loop = "usage" -> monitoring_interval
      [] loop = "progress" -> 300
      [] loop = "sweep" -> 180
      [] loop = "enforce" -> 60

\* start_monitoring called with the flag cleared while coroutines of the
\* previous start are still alive, at their first test or asleep.  Nothing
\* cancels them: four new coroutines are created beside them and the flag is
\* set again.
StartMonitoringAgain ==
    LET old == {[loop |-> l, wake |-> LoopWake(l)] : l \in {k \in Loops : LoopPc(k) # "off"}}
    IN  /\ ~monitoring_active
        /\ old # {}
        /\ \A l \in Loops : LoopPc(l) \in {"off", "test", "sleep"}
        /\ Cardinality(orphans \cup old) <= MaxOrphans
        /\ orphans' = orphans \cup old
        /\ monitoring_active' = TRUE
        /\ enforce_pc' = "test"
        /\ sweep_pc' = "test"
        /\ usage_pc' = "test"
        /\ progress_pc' = "test"
        /\ enforce_wake' = 0
        /\ sweep_wake' = 0
        /\ usage_wake' = 0
        /\ progress_wake' = 0
        /\ start_pc' = "gather"
        /\ call' = Ret("start_monitoring", "", "started", 0, "")
        /\ UNCHANGED <<admitted, track_pc, usage_todo, usage_used, auxVars, now, storeVars,
                       limiterVars, active_projects, paused_tasks, enforce_todo,
                       enforce_resumed, enforce_free, checkpoint_files>>

\* A coroutine of an earlier start at its while test, first or after a sleep:
\* it ends if the flag is cleared, and otherwise makes its pass and sleeps
\* again.  The pass is taken with nothing paused and no checkpoint requested,
\* where it writes nothing.
OrphanWakes(o) ==
    /\ o \in orphans
    /\ now >= o.wake
    /\ IF monitoring_active
       THEN /\ paused_tasks = {}
            /\ tasks_needing_checkpoints = {}
            /\ orphans' = (orphans \ {o})
                              \cup {[loop |-> o.loop, wake |-> now + LoopSleep(o.loop)]}
            /\ call' = Ret("orphan", o.loop, "pass", 0, "")
       ELSE /\ orphans' = orphans \ {o}
            /\ call' = Ret("orphan", o.loop, "exit", 0, "")
    /\ UNCHANGED <<admitted, track_pc, usage_todo, usage_used, auxVars, now, storeVars, limiterVars,
                   engineVars, checkpoint_files>>

\* The wake-up times of the coroutines that are asleep.
timers ==
    ({w \in {enforce_wake, sweep_wake, usage_wake, progress_wake} : w > now}
       \cap ((IF enforce_pc = "sleep" THEN {enforce_wake} ELSE {})
             \cup (IF sweep_pc = "sleep" THEN {sweep_wake} ELSE {})
             \cup (IF usage_pc = "sleep" THEN {usage_wake} ELSE {})
             \cup (IF progress_pc = "sleep" THEN {progress_wake} ELSE {})))
    \cup {o.wake : o \in {x \in orphans : x.wake > now}}

\* The event loop waits for its next timer: the clock moves on to it.
AwaitTimer ==
    /\ timers # {}
    /\ now' = CHOOSE w \in timers : \A v \in timers : w <= v
    /\ now' <= MaxTicks * TickStep
    /\ call' = NoCall
    /\ UNCHANGED <<admitted, raceVars, storeVars, limiterVars, engineVars, checkpoint_files>>

-----------------------------------------------------------------------------

Init ==
    /\ now = 0
    /\ projects = <<>>
    /\ tasks = <<>>
    /\ token_usage = <<>>
    /\ call_history = [p \in Projects |-> <<>>]
    /\ rate_limits = <<>>
    /\ active_projects = {}
    /\ paused_tasks = {}
    /\ monitoring_active = FALSE
    /\ enforce_pc = "off"
    /\ enforce_todo = {}
    /\ enforce_wake = 0
    /\ sweep_pc = "off"
    /\ sweep_wake = 0
    /\ usage_pc = "off"
    /\ usage_wake = 0
    /\ progress_pc = "off"
    /\ progress_wake = 0
    /\ start_pc = "idle"
    /\ checkpoint_files = {}
    /\ admitted = [p \in Projects |-> <<>>]
    /\ enforce_resumed = <<>>
    /\ enforce_free = <<>>
    /\ track_pc = [t \in Tasks |-> "idle"]
    /\ usage_todo = {}
    /\ usage_used = 0
    /\ orphans = {}
    /\ completions = [t \in Tasks |-> 0]
    /\ prepared = <<>>
    /\ checkpoint_text = <<>>
    /\ log_file = <<>>
    /\ tracking = {}
    /\ call = NoCall

(* The rate limiter on its own: its methods and the clock.  Project p1 has  *)
(* its limit set; p2 runs on the default.                                  *)
NextLimiter ==
    \/ Tick
    \/ \E p \in Projects : CanExecute(p)
    \/ \E p \in {"p1"} : IsRateLimited(p)
    \/ \E p \in {"p1"}, n \in RateLimits : SetRateLimit(p, n)

SpecLimiter == Init /\ [][NextLimiter]_vars

(* Admission: one project and one task, fed by the API routes. *)
NextAdmission ==
    \/ Tick
    \/ \E in \in TaskInputs : ApiRegisterTask("t1", "p1", in)
    \/ \E n \in ActualAmounts : ApiUpdateTaskActual("t1", n)
    \/ \E n \in UsageAmounts : ApiRecordUsage("p1", n)
    \/ \E n \in RateLimits : SetRateLimit("p1", n)
    \/ \E b \in Budgets : RegisterProject("p1", b)
    \/ \E b \in Budgets : ApiUpdateProject("p1", <<b>>)
    \/ TrackTaskExecution("t1")
    \/ GetProjectStatus("p1")

SpecAdmission == Init /\ [][NextAdmission]_vars

(* Checkpointing: one task of one project, the sweep and direct calls. *)
CheckpointInputs == {"requested", "saved"}
CheckpointFailures == {"open", "dump", "stat"}

NextCheckpoint ==
    \/ Tick
    \/ \E in \in TaskInputs : ApiRegisterTask("t1", "p1", in)
    \/ \E n \in ActualAmounts : ApiUpdateTaskActual("t1", n)
    \/ \E c \in CheckpointInputs : ApiUpdateTaskCheckpoint("t1", c)
    \/ \E b \in Budgets : RegisterProject("p1", b)
    \/ TrackTaskExecution("t1")
    \/ CreateCheckpoint("t1")
    \/ \E failing \in CheckpointFailures : CreateCheckpointFails("t1", failing)
    \/ StartMonitoring
    \/ StopMonitoring
    \/ ManageCheckpoints

SpecCheckpoint == Init /\ [][NextCheckpoint]_vars

(* The life of one task: admission, completion and the rate-limit release *)
(* loop.                                                                   *)
StatusInputs == {"in_progress", "failed"}

NextLifecycle ==
    \/ Tick
    \/ ApiRegisterTask("t1", "p1", <<"complex", 10>>)
    \/ \E s \in StatusInputs : ApiUpdateTaskStatus("t1", s)
    \/ \E n \in RateLimits : SetRateLimit("p1", n)
    \/ \E b \in Budgets : RegisterProject("p1", b)
    \/ TrackTaskExecution("t1")
    \/ \E n \in ActualAmounts : HandleTaskCompletion("t1", n)
    \/ StartMonitoring
    \/ StopMonitoring
    \/ EnforceTest
    \/ EnforceStep("t1")

SpecLifecycle == Init /\ [][NextLifecycle]_vars

(* The release of a rate-limited task: one task of one project, the       *)
(* release loop and the other callers of the project's limiter, over       *)
(* unbounded time.  The event loop runs a coroutine that is ready, and     *)
(* time passes.                                                            *)
NextRelease ==
    \/ Elapse
    \/ ApiRegisterTask("t1", "p1", <<"complex", 10>>)
    \/ \E n \in RateLimits : SetRateLimit("p1", n)
    \/ RegisterProject("p1", 12)
    \/ TrackTaskExecution("t1")
    \/ GetProjectStatus("p1")
    \/ StartMonitoring
    \/ StopMonitoring
    \/ EnforceTest
    \/ EnforceStep("t1")

SpecRelease ==
    /\ Init
    /\ [][NextRelease]_vars
    /\ WF_vars(Elapse)
    /\ WF_vars(EnforceTest)
    /\ WF_vars(EnforceStep("t1"))

(* Monitoring: start, stop, the four background loops with their faults,  *)
(* and the timers they sleep on; one project and one task to pause.        *)
EnforceFaults == {"get_by_id", "update"}

NextMonitoring ==
    \/ AwaitTimer
    \/ ApiRegisterTask("t1", "p1", <<"complex", 10>>)
    \/ SetRateLimit("p1", 1)
    \/ RegisterProject("p1", 12)
    \/ TrackTaskExecution("t1")
    \/ StartMonitoring
    \/ StopMonitoring
    \/ StartMonitoringReturns
    \/ MonitorTokenUsage
    \/ MonitorTokenUsageFault
    \/ MonitorTaskProgress
    \/ MonitorTaskProgressFault
    \/ ManageCheckpoints
    \/ ManageCheckpointsFault
    \/ EnforceTest
    \/ EnforceStep("t1")
    \/ \E failing \in EnforceFaults : EnforceFault("t1", failing)

SpecMonitoring == Init /\ [][NextMonitoring]_vars

(* Budget alerts: two projects, their budgets and recorded usage. *)
AlertBudgets == {20, 100}
AlertUsage == {16, 19, 79, 80, 81, 94, 95, 96}

NextAlerts ==
    \/ \E p \in Projects, b \in AlertBudgets : RegisterProject(p, b)
    \/ \E p \in Projects, b \in AlertBudgets : ApiUpdateProject(p, <<b>>)
    \/ \E p \in Projects, n \in AlertUsage : ApiRecordUsage(p, n)
    \/ \E p \in Projects : CheckBudgetAlerts(p)

SpecAlerts == Init /\ [][NextAlerts]_vars

(* The project table: the routes that write it and the engine's            *)
(* registration, fed with budgets on both sides of the validators' limits. *)
BudgetInputs == {-1, 0, 1, MaxTokenBudget, MaxTokenBudget + 1}
ProjectBodies == {<<>>} \cup {<<n>> : n \in BudgetInputs}

NextProjects ==
    \/ \E p \in Projects, body \in ProjectBodies : ApiRegisterProject(p, body)
    \/ \E p \in Projects, body \in ProjectBodies : ApiUpdateProject(p, body)
    \/ \E p \in Projects : ApiDeleteProject(p)
    \/ \E p \in Projects, n \in BudgetInputs : Project(n) /\ RegisterProject(p, n)

SpecProjects == Init /\ [][NextProjects]_vars

(* The usage table under everything that runs beside it: the routes that   *)
(* record usage and delete projects, the engine's operations on one task   *)
(* of one project, and the background loops.                               *)
UsageInputs == {-2, 0, 2}

NextUsage ==
    \/ ApiRegisterTask("t1", "p1", <<"complex", 10>>)
    \/ RegisterProject("p1", 12)
    \/ ApiDeleteProject("p1")
    \/ \E n \in RateLimits : SetRateLimit("p1", n)
    \/ \E n \in UsageInputs : ApiRecordUsage("p1", n)
    \/ TrackTaskExecution("t1")
    \/ HandleTaskCompletion("t1", 8)
    \/ StartMonitoring
    \/ StopMonitoring
    \/ MonitorTokenUsage
    \/ MonitorTaskProgress
    \/ ManageCheckpoints
    \/ EnforceTest
    \/ EnforceStep("t1")

SpecUsage == Init /\ [][NextUsage]_vars

(* Admission for callers that run side by side: two tasks of one project,  *)
(* each call suspended between its budget check and its decision; a caller *)
(* reports the completion of a task it was approved to run.                *)
EstimateInputs == {<<"complex", 8>>, <<"complex", 10>>}

NextConcurrentAdmission ==
    \/ Tick
    \/ \E t \in Tasks, in \in EstimateInputs : ApiRegisterTask(t, "p1", in)
    \/ \E b \in Budgets : RegisterProject("p1", b)
    \/ \E n \in RateLimits : SetRateLimit("p1", n)
    \/ \E n \in UsageAmounts : ApiRecordUsage("p1", n)
    \/ \E t \in Tasks : TrackCheckBudget(t)
    \/ \E t \in Tasks : TrackDecide(t)
    \/ \E t \in Tasks : track_pc[t] = "running" /\ HandleTaskCompletion(t, 8)

SpecConcurrentAdmission == Init /\ [][NextConcurrentAdmission]_vars

(* The set of active projects under a loop that iterates it: projects are  *)
(* registered while the usage monitor is suspended inside its for loop.    *)
NextIteration ==
    \/ AwaitTimer
    \/ \E p \in Projects, b \in Budgets : RegisterProject(p, b)
    \/ StartMonitoring
    \/ StopMonitoring
    \/ MonitorTokenUsageEnter
    \/ MonitorTokenUsageNext
    \/ MonitorTaskProgress
    \/ ManageCheckpoints
    \/ EnforceTest

SpecIteration == Init /\ [][NextIteration]_vars

(* The paused set beside the task store: one task is paused by admission,  *)
(* and is then completed, resumed through the task routes, or released by  *)
(* the release loop, while monitoring is started and stopped.              *)
NextPausedSet ==
    \/ Tick
    \/ ApiRegisterTask("t1", "p1", <<"complex", 10>>)
    \/ ApiUpdateTaskStatus("t1", "pending")
    \/ ApiResumeTask("t1")
    \/ \E n \in RateLimits : SetRateLimit("p1", n)
    \/ RegisterProject("p1", 12)
    \/ TrackTaskExecution("t1")
    \/ HandleTaskCompletion("t1", 8)
    \/ StartMonitoring
    \/ StopMonitoring
    \/ EnforceTest
    \/ EnforceStep("t1")

SpecPausedSet == Init /\ [][NextPausedSet]_vars

(* Starting, stopping and starting again: the coroutines of each start and *)
(* the timers they sleep on, with no project and no task; of the new       *)
(* coroutines the usage monitor and the release loop are followed.         *)
NextRestart ==
    \/ AwaitTimer
    \/ StartMonitoring
    \/ StopMonitoring
    \/ StartMonitoringAgain
    \/ \E o \in orphans : OrphanWakes(o)
    \/ MonitorTokenUsage
    \/ EnforceTest

SpecRestart == Init /\ [][NextRestart]_vars

\* The limiter's two queries, the status report and the admission, side by side.
NextStatus ==
    \/ Tick
    \/ \E in \in TaskInputs : ApiRegisterTask("t1", "p1", in)
    \/ \E n \in RateLimits : SetRateLimit("p1", n)
    \/ \E b \in Budgets : RegisterProject("p1", b)
    \/ CanExecute("p1")
    \/ IsRateLimited("p1")
    \/ GetProjectStatus("p1")
    \/ TrackTaskExecution("t1")

SpecStatus == Init /\ [][NextStatus]_vars

\* One pass of the release loop over two paused tasks of one project, with
\* the clock and the limit free to move between its awaits.
NextReleasePass ==
    \/ Tick
    \/ \E t \in Tasks : ApiRegisterTask(t, "p1", <<"complex", 10>>)
    \/ \E n \in RateLimits : SetRateLimit("p1", n)
    \/ RegisterProject("p1", 12)
    \/ \E t \in Tasks : TrackTaskExecution(t)
    \/ StartMonitoring
    \/ StopMonitoring
    \/ EnforceTest
    \/ \E t \in Tasks : EnforceStep(t)

SpecReleasePass == Init /\ [][NextReleasePass]_vars

\* handle_task_completion called any number of times for registered and
\* unregistered tasks, with the API's status and usage routes beside it.
NextCompletion ==
    \/ Tick
    \/ \E in \in TaskInputs : ApiRegisterTask("t1", "p1", in)
    \/ \E b \in Budgets : RegisterProject("p1", b)
    \/ \E n \in UsageAmounts : ApiRecordUsage("p1", n)
    \/ \E s \in {"in_progress", "completed"} : ApiUpdateTaskStatus("t1", s)
    \/ \E t \in Tasks, n \in ActualAmounts : HandleTaskCompletionCounted(t, n)

SpecCompletion == Init /\ [][NextCompletion]_vars

\* The limiter with get_retry_after called directly, up to a second late.
NextRetry ==
    \/ Tick
    \/ \E p \in Projects : CanExecute(p)
    \/ \E n \in RateLimits : SetRateLimit("p1", n)
    \/ \E p \in Projects, late \in Lates : GetRetryAfter(p, late)

SpecRetry == Init /\ [][NextRetry]_vars

\* Two projects on one limiter: p1 with overrides, p2 on the default.
NextPerProject ==
    \/ Tick
    \/ \E p \in Projects : CanExecuteToDefault(p)
    \/ \E n \in RateLimits : SetRateLimit("p1", n)

SpecPerProject == Init /\ [][NextPerProject]_vars

\* The checkpoint manager on its own: URIs prepared, checkpoints created,
\* for tasks whose progress the API moves.
NextCheckpointUri ==
    \/ Tick
    \/ ApiRegisterTask("t1", "p1", <<"complex", 10>>)
    \/ \E n \in ActualAmounts : ApiUpdateTaskActual("t1", n)
    \/ \E t \in Tasks, late \in ReadLates : PrepareCheckpoint(t, late)
    \/ \E early, late \in ReadLates : CreateCheckpointAt("t1", early, late)

SpecCheckpointUri == Init /\ [][NextCheckpointUri]_vars

\* The tracker on its own: operations tracked and completed, estimates and
\* analyses asked for.
NextEstimator ==
    \/ \E operation_type \in OperationTypes, n \in EstimatedInputs :
          TrackOperation(operation_type, "p1", n)
    \/ \E info \in tracking, n \in ActualInputs, success \in BOOLEAN :
          CompleteOperation(info, n, success)
    \/ \E p \in Projects : AnalyzeEfficiency(p)
    \/ \E operation_type \in OperationTypes, complexity \in Complexities,
          file_count \in FileCounts :
          GetUsageEstimate(operation_type, complexity, file_count)

SpecEstimator == Init /\ [][NextEstimator]_vars

-----------------------------------------------------------------------------
(* What the properties below read off a step *)

IsTrack == call'.op = "track_task_execution"

\* The timestamps of p's history that are at most Window old.
InWindow(p) ==
    Cardinality({i \in 1..Len(call_history[p]) : call_history[p][i] >= now - Window})

NoFreeSlot(p) == InWindow(p) >= RateLimitOf(p)

OverBudget(row) ==
    row.estimated_tokens > projects[row.project_id] - get_project_usage(row.project_id)

\* The oldest timestamp of p's history that is at most Window old.
OldestInWindow(p) ==
    LET kept == {call_history[p][i] : i \in 1..Len(call_history[p])}
                    \cap {ts \in 0..now : ts >= now - Window}
    IN  CHOOSE ts \in kept : \A other \in kept : ts <= other

-----------------------------------------------------------------------------
(* C1: track_task_execution checks budget, then rate, then checkpoint, and *)
(* stops at the first check that fails: over budget with no free rate slot *)
(* is BLOCKED, within budget with no free rate slot is RATE_LIMITED even   *)
(* when the checkpoint threshold is reached.                               *)
C1_ChecksInOrder ==
    [][IsTrack =>
        LET row == tasks[call'.arg]
            p == row.project_id
        IN  p \in DOMAIN projects =>
              /\ (OverBudget(row) /\ NoFreeSlot(p)) => call'.status = "blocked"
              /\ (~OverBudget(row) /\ NoFreeSlot(p) /\ should_request_checkpoint(row))
                    => call'.status = "rate_limited"]_vars

\* A task at its checkpoint threshold was RATE_LIMITED.
C1_Witness ==
    /\ call.op = "track_task_execution"
    /\ call.status = "rate_limited"
    /\ should_request_checkpoint(tasks[call.arg])

\* An over-budget task of a project with no free rate slot was BLOCKED.
C1_WitnessBlocked ==
    /\ call.op = "track_task_execution"
    /\ call.status = "blocked"
    /\ NoFreeSlot(tasks[call.arg].project_id)

(* C2: a track_task_execution that returns BLOCKED changes neither the     *)
(* task store, nor the paused set, nor the rate limiter's history.         *)
C2_BlockedChangesNothing ==
    [][(IsTrack /\ call'.status = "blocked")
          => UNCHANGED <<tasks, paused_tasks, call_history, rate_limits, token_usage>>]_vars

\* A BLOCKED decision for a project that still had a free rate slot.
C2_Witness ==
    /\ call.op = "track_task_execution"
    /\ call.status = "blocked"
    /\ ~NoFreeSlot(tasks[call.arg].project_id)

(* C3: for an existing project, track_task_execution returns BLOCKED       *)
(* exactly when the estimate exceeds budget minus recorded usage.          *)
C3_BlockedIffOverBudget ==
    [][IsTrack =>
        LET row == tasks[call'.arg] IN
        row.project_id \in DOMAIN projects =>
            (call'.status = "blocked" <=> OverBudget(row))]_vars

\* An estimate equal to the remaining budget, usage recorded, was not BLOCKED.
C3_Witness ==
    /\ call.op = "track_task_execution"
    /\ call.status # "blocked"
    /\ tasks[call.arg].project_id \in DOMAIN projects
    /\ get_project_usage(tasks[call.arg].project_id) > 0
    /\ tasks[call.arg].estimated_tokens
          = projects[tasks[call.arg].project_id]
              - get_project_usage(tasks[call.arg].project_id)

\* A project whose usage exceeds its budget blocked a task estimating zero.
C3_WitnessExceeded ==
    /\ call.op = "track_task_execution"
    /\ call.status = "blocked"
    /\ tasks[call.arg].estimated_tokens = 0

(* C4: at every admission by can_execute or is_rate_limited, the           *)
(* admissions of the last 60 seconds, this one included, are at most the   *)
(* project's limit; and a call made while that many admissions lie within  *)
(* the last 60 seconds is denied.                                          *)
IsLimiterCall == call'.op \in {"can_execute", "is_rate_limited"}

LimiterAdmitted ==
    \/ call'.op = "can_execute" /\ call'.status = "true"
    \/ call'.op = "is_rate_limited" /\ call'.status = "false"

AdmittedSince(log, from) == Cardinality({i \in 1..Len(log) : log[i] >= from})

C4_AtMostLimitPerWindow ==
    [][IsLimiterCall =>
        LET p == call'.arg IN
        /\ LimiterAdmitted => AdmittedSince(admitted'[p], now - Window) <= RateLimitOf(p)
        /\ AdmittedSince(admitted[p], now - Window) >= RateLimitOf(p) => ~LimiterAdmitted]_vars

\* A call was denied after older admissions had already left the window.
C4_Witness ==
    /\ call.op = "can_execute"
    /\ call.status = "false"
    /\ Len(admitted[call.arg]) > Len(call_history[call.arg])

(* C5: track_task_execution returns RATE_LIMITED exactly when the task is  *)
(* within budget and the limiter denies; it then stores the task PAUSED,   *)
(* adds it to the paused set and reports the retry-after seconds.  Under a *)
(* limit of 1 the first call passes the rate check, the second does not.   *)
C5_RateLimitedPauses ==
    [][IsTrack =>
        LET t == call'.arg
            row == tasks[t]
            p == row.project_id
        IN  p \in DOMAIN projects =>
              /\ call'.status = "rate_limited" <=> (~OverBudget(row) /\ NoFreeSlot(p))
              /\ call'.status = "rate_limited" =>
                    /\ tasks' = [tasks EXCEPT ![t].status = "paused"]
                    /\ paused_tasks' = paused_tasks \cup {t}
                    /\ call_history'[p] = Evict(call_history[p], now - Window)
                    /\ call'.val = IF InWindow(p) = 0 THEN 0
                                   ELSE Max(0, Window - (now - OldestInWindow(p)))
              /\ (~OverBudget(row) /\ RateLimitOf(p) = 1 /\ InWindow(p) = 0) =>
                    /\ call'.status # "rate_limited"
                    /\ call_history'[p] = <<now>>]_vars

\* Under a limit of 1 a call was RATE_LIMITED and the task is stored PAUSED.
C5_Witness ==
    /\ call.op = "track_task_execution"
    /\ call.status = "rate_limited"
    /\ RateLimitOf(tasks[call.arg].project_id) = 1
    /\ tasks[call.arg].status = "paused"
    /\ call.arg \in paused_tasks
    /\ call.val > 0

(* C6: over track_task_execution calls, checkpoint sweeps and              *)
(* create_checkpoint calls, a task's checkpoint_state only moves forward,  *)
(* none, requested, saved: neither the stored state nor the state of the   *)
(* Task object the operation was given ever moves backward.                *)
Rank(checkpoint_state) ==
    CASE checkpoint_state = "none" -> 0
      [] checkpoint_state = "requested" -> 1
      [] checkpoint_state = "saved" -> 2

C6_CheckpointStateForwardOnly ==
    [][(call'.op \in {"track_task_execution", "create_checkpoint", "manage_checkpoints"}) =>
        /\ \A t \in DOMAIN tasks :
              Rank(tasks'[t].checkpoint_state) >= Rank(tasks[t].checkpoint_state)
        /\ call'.op \in {"track_task_execution", "create_checkpoint"} =>
              Rank(call'.cp) >= Rank(tasks[call'.arg].checkpoint_state)]_vars

(* C7: the rate-limit release loop never changes the stored status of a    *)
(* task that is COMPLETED or FAILED.                                       *)
C7_TerminalTasksStayTerminal ==
    [][call'.op = "enforce_rate_limits" =>
        \A t \in DOMAIN tasks :
            tasks[t].status \in {"completed", "failed"} =>
                tasks'[t].status = tasks[t].status]_vars

(* C8: every change the engine makes to a stored status follows the task   *)
(* state machine: PAUSED and COMPLETED only from in_progress, PENDING only *)
(* from paused.                                                            *)
IsEngineStep ==
    call'.op \in {"track_task_execution", "handle_task_completion", "enforce_rate_limits"}

C8_EngineFollowsStateMachine ==
    [][IsEngineStep =>
        \A t \in DOMAIN tasks :
            tasks'[t].status # tasks[t].status =>
                /\ tasks'[t].status = "paused" => tasks[t].status = "in_progress"
                /\ tasks'[t].status = "completed" => tasks[t].status = "in_progress"
                /\ tasks'[t].status = "pending" => tasks[t].status = "paused"
                /\ tasks'[t].status \in {"paused", "completed", "pending"}]_vars

(* C9: handle_task_completion(task_id, n) for a stored task stores it      *)
(* COMPLETED with actual_tokens n and a completion time, appends exactly   *)
(* one task_completion usage record of n tokens for the task's project,    *)
(* and returns status completed.                                           *)
C9_CompletionIsRecorded ==
    [][(call'.op = "handle_task_completion" /\ call'.arg \in DOMAIN tasks) =>
        LET t == call'.arg
            n == call'.val
        IN  /\ tasks'[t].status = "completed"
            /\ tasks'[t].actual_tokens = n
            /\ tasks'[t].completed_at = now
            /\ token_usage' = Append(token_usage,
                  UsageRecord(tasks[t].project_id, t, n, "task_completion"))
            /\ SumUsage(token_usage', tasks[t].project_id)
                  = get_project_usage(tasks[t].project_id) + n
            /\ call'.status = "completed"]_vars

(* C11: while monitoring is active and the project's limit is at least 1, *)
(* a task paused by a rate_limited decision is eventually released by the  *)
(* release loop: stored PENDING and out of the paused set.                 *)
Released(t) ==
    /\ t \notin paused_tasks
    /\ t \in DOMAIN tasks
    /\ tasks[t].status = "pending"

AwaitingRelease(t) ==
    /\ t \in paused_tasks
    /\ t \in DOMAIN tasks
    /\ monitoring_active
    /\ RateLimitOf(tasks[t].project_id) >= 1

C11_PausedEventuallyReleased ==
    AwaitingRelease("t1") ~> (Released("t1") \/ ~monitoring_active)

(* C11, amended: the same, unless another caller of the project's limiter  *)
(* (a track_task_execution that passes the rate check, or the              *)
(* is_rate_limited probe of get_project_status) keeps taking the slots the *)
(* window frees: between two admissions of other callers the release loop  *)
(* releases the task.                                                      *)
OtherCallerAdmitted ==
    \/ call.op = "get_project_status" /\ call.status = "not_limited"
    \/ call.op = "track_task_execution" /\ call.status = "approved"

C11_ReleasedUnlessOutrun ==
    AwaitingRelease("t1") ~> (Released("t1") \/ ~monitoring_active \/ OtherCallerAdmitted)

C11_Witness ==
    /\ call.op = "enforce_rate_limits"
    /\ call.arg = "t1"
    /\ call.status = "resumed"
    /\ Released("t1")
    /\ monitoring_active

(* C12: a pass of the checkpoint sweep leaves every task it picked up (a   *)
(* task of an active project stored with checkpoint_state REQUESTED)       *)
(* stored with checkpoint_state SAVED, so the next pass does not pick the  *)
(* same request up again.                                                  *)
C12_SweepSavesRequested ==
    [][(call'.op = "manage_checkpoints" /\ call'.status = "pass") =>
        /\ \A t \in tasks_needing_checkpoints : tasks'[t].checkpoint_state = "saved"
        /\ tasks_needing_checkpoints' = {}]_vars

(* C13: once stop_monitoring has cleared the flag, each of the four loops *)
(* exits at its next wake point (its while test, at the start or after a   *)
(* sleep), and start_monitoring returns only when all four have exited.    *)
AtWakePoint(pc, wake) ==
    \/ pc = "test"
    \/ pc = "sleep" /\ now >= wake

LoopsExited ==
    /\ enforce_pc = "off"
    /\ sweep_pc = "off"
    /\ usage_pc = "off"
    /\ progress_pc = "off"

C13_StopEndsTheLoops ==
    [][/\ ~monitoring_active =>
            /\ (AtWakePoint(enforce_pc, enforce_wake) /\ enforceVars' # enforceVars)
                  => enforce_pc' = "off"
            /\ (AtWakePoint(sweep_pc, sweep_wake) /\ sweepVars' # sweepVars)
                  => sweep_pc' = "off"
            /\ (AtWakePoint(usage_pc, usage_wake) /\ usageVars' # usageVars)
                  => usage_pc' = "off"
            /\ (AtWakePoint(progress_pc, progress_wake) /\ progressVars' # progressVars)
                  => progress_pc' = "off"
       /\ (start_pc = "gather" /\ start_pc' = "idle") => LoopsExited]_vars

C13_Witness ==
    /\ call.op = "start_monitoring"
    /\ call.status = "returned"
    /\ ~monitoring_active
    /\ LoopsExited
    /\ now > 0

(* C14: a fault in an iteration of one background loop sends that loop to *)
(* a 60 s backoff and touches nothing else: the other three loops stay     *)
(* where they are, the monitoring flag keeps its value and                 *)
(* start_monitoring does not return; and a loop that wakes while           *)
(* monitoring is active iterates again, it does not exit.                  *)
Faulted(op, loop) ==
    /\ call'.op = op
    /\ call'.status = "fault"
    /\ loop'[1] = "sleep"
    /\ loop'[Len(loop)] = now + 60

C14_FaultsStayInTheirLoop ==
    [][/\ call'.status = "fault" =>
            /\ monitoring_active' = monitoring_active
            /\ start_pc' = start_pc
            /\ \/ Faulted("enforce_rate_limits", enforceVars)
                    /\ UNCHANGED <<sweepVars, usageVars, progressVars>>
               \/ Faulted("manage_checkpoints", sweepVars)
                    /\ UNCHANGED <<enforceVars, usageVars, progressVars>>
               \/ Faulted("monitor_token_usage", usageVars)
                    /\ UNCHANGED <<enforceVars, sweepVars, progressVars>>
               \/ Faulted("monitor_task_progress", progressVars)
                    /\ UNCHANGED <<enforceVars, sweepVars, usageVars>>
       /\ monitoring_active =>
            /\ AtWakePoint(enforce_pc, enforce_wake) => enforce_pc' # "off"
            /\ AtWakePoint(sweep_pc, sweep_wake) => sweep_pc' # "off"
            /\ AtWakePoint(usage_pc, usage_wake) => usage_pc' # "off"
            /\ AtWakePoint(progress_pc, progress_wake) => progress_pc' # "off"]_vars

C14_Witness ==
    /\ call.op = "enforce_rate_limits"
    /\ call.status = "fault"
    /\ enforce_pc = "sleep"
    /\ monitoring_active
    /\ start_pc = "gather"
    /\ sweep_pc # "off"
    /\ usage_pc # "off"
    /\ progress_pc # "off"

(* C15: every boundary operation of the engine answers a failure of a     *)
(* collaborator with an outcome of status error; none raises to its        *)
(* caller.  For register_project the failing collaborator is               *)
(* ProjectRepository.create on a project_id that is already stored.        *)
BoundaryOps ==
    {"register_project", "track_task_execution", "handle_task_completion",
     "get_project_status"}

C15_BoundaryReturnsError ==
    [][call'.op \in BoundaryOps =>
        /\ call'.status # "raised"
        /\ (call'.op = "register_project" /\ call'.arg \in DOMAIN projects)
              => call'.status = "error"]_vars

(* C16: an absent entity changes nothing.  handle_task_completion for a    *)
(* task id that is not stored returns error and appends no usage record;   *)
(* track_task_execution for a task whose project is not stored does not    *)
(* return approved, takes no rate-limit slot and leaves the task store and *)
(* the paused set as they were.                                            *)
C16_AbsentEntityChangesNothing ==
    [][/\ (call'.op = "handle_task_completion" /\ call'.arg \notin DOMAIN tasks) =>
            /\ call'.status = "error"
            /\ UNCHANGED <<storeVars, limiterVars, paused_tasks>>
       /\ (IsTrack /\ tasks[call'.arg].project_id \notin DOMAIN projects) =>
            /\ call'.status \notin {"approved", "checkpoint_requested", "rate_limited"}
            /\ UNCHANGED <<storeVars, limiterVars, paused_tasks>>]_vars

C16_Witness ==
    /\ call.op = "track_task_execution"
    /\ call.status = "error"
    /\ call.arg \in DOMAIN tasks
    /\ tasks[call.arg].project_id \notin DOMAIN projects
    /\ ~NoFreeSlot(tasks[call.arg].project_id)
    /\ tasks[call.arg].status = "pending"

C16_WitnessCompletion ==
    /\ call.op = "handle_task_completion"
    /\ call.status = "error"
    /\ call.arg \notin DOMAIN tasks
    /\ token_usage = <<>>

(* C17: a create_checkpoint that fails, at whichever step, returns no      *)
(* checkpoint and leaves the task as it was: the checkpoint_state of the   *)
(* Task object it was given is what it was before the call, and the task   *)
(* store is unchanged.                                                     *)
C17_FailedCheckpointLeavesTask ==
    [][(call'.op = "create_checkpoint" /\ call'.status = "none") =>
        /\ call'.cp = tasks[call'.arg].checkpoint_state
        /\ tasks' = tasks]_vars

(* C18: _check_budget_alerts returns at most one alert for a stored        *)
(* project: CRITICAL when used/budget >= 0.95, otherwise WARNING when      *)
(* used/budget >= 0.80, otherwise none.                                    *)
C18_OneAlertByThreshold ==
    [][(call'.op = "check_budget_alerts" /\ call'.arg \in DOMAIN projects) =>
        LET used == get_project_usage(call'.arg)
            budget == projects[call'.arg]
        IN  /\ call'.val <= 1
            /\ call'.status = "critical" <=> 100 * used >= 95 * budget
            /\ call'.status = "warning" <=> (100 * used >= 80 * budget /\ 100 * used < 95 * budget)
            /\ call'.val = 0 <=> 100 * used < 80 * budget]_vars

\* used/budget = 0.81: WARNING and no CRITICAL
C18_Witness ==
    /\ call.op = "check_budget_alerts"
    /\ call.arg \in DOMAIN projects
    /\ projects[call.arg] = 100
    /\ get_project_usage(call.arg) = 81
    /\ call.status = "warning"
    /\ call.val = 1

\* used/budget = 0.96: CRITICAL only
C18_WitnessCritical ==
    /\ call.op = "check_budget_alerts"
    /\ call.arg \in DOMAIN projects
    /\ projects[call.arg] = 100
    /\ get_project_usage(call.arg) = 96
    /\ call.status = "critical"
    /\ call.val = 1

(* C19: a track_task_execution that passed the budget and the rate check  *)
(* requests a checkpoint (returns checkpoint_requested, the task stored    *)
(* REQUESTED) exactly when estimated_tokens > 0, actual_tokens > 0 and     *)
(* actual/estimated >= 0.70 for very_complex, 0.95 for simple, 0.90        *)
(* otherwise.                                                              *)
ThresholdReached(row) ==
    /\ row.estimated_tokens > 0
    /\ row.actual_tokens > 0
    /\ 100 * row.actual_tokens >=
         (CASE row.complexity = "very_complex" -> 70
            [] row.complexity = "simple" -> 95
            [] OTHER -> 90) * row.estimated_tokens

PassedChecks(row) ==
    /\ row.project_id \in DOMAIN projects
    /\ ~OverBudget(row)
    /\ ~NoFreeSlot(row.project_id)

C19_CheckpointRequestedAtThreshold ==
    [][(IsTrack /\ PassedChecks(tasks[call'.arg])) =>
        /\ call'.status = "checkpoint_requested" <=> ThresholdReached(tasks[call'.arg])
        /\ ThresholdReached(tasks[call'.arg])
              => tasks'[call'.arg].checkpoint_state = "requested"]_vars

(* C20: handle_task_completion for a stored task reports the efficiency   *)
(* estimated_tokens / actual_tokens (above 1 when actual < estimated), and *)
(* 1.0 when actual_tokens is 0.                                            *)
C20_EfficiencyReported ==
    [][(call'.op = "handle_task_completion" /\ call'.arg \in DOMAIN tasks) =>
        /\ call'.status = "completed"
        /\ LET estimated == tasks[call'.arg].estimated_tokens
               actual == call'.val
               reported == call'.efficiency
           IN  IF actual > 0
               THEN /\ reported.num * actual = estimated * reported.den
                    /\ actual < estimated => reported.num > reported.den
               ELSE reported.num = reported.den]_vars

(* C21: the BLOCKED outcome of track_task_execution reports the numbers of  *)
(* the decision: available is the remaining budget of the task's project   *)
(* and required is the task's estimated tokens.                            *)
C21_BlockedReportsNumbers ==
    [][(IsTrack /\ call'.status = "blocked")
        => LET row == tasks[call'.arg] IN
           /\ {"available", "required"} \subseteq DOMAIN call'
           /\ call'.available = remaining_tokens(row.project_id)
           /\ call'.required = row.estimated_tokens]_vars

(* C22: in every reachable state each stored project's token budget is a   *)
(* positive integer, at creation and after any project update.             *)
C22_BudgetsPositive ==
    \A p \in DOMAIN projects : projects[p] \in Nat \ {0}

\* A project whose budget was changed by an accepted update, and an update
\* with a budget of zero that was turned away.
C22_Witness ==
    /\ call.op = "api_update_project"
    /\ call.status = "200"
    /\ call.arg \in DOMAIN projects
    /\ projects[call.arg] = call.val

C22_WitnessRejected ==
    /\ call.op = "api_update_project"
    /\ call.status = "422"
    /\ call.arg \in DOMAIN projects

(* C23: usage records are only appended: every step leaves the records    *)
(* already in the table as they were, in place, and no project's recorded  *)
(* usage sum decreases.                                                    *)
C23_UsageAppendOnly ==
    [][/\ Len(token_usage') >= Len(token_usage)
       /\ SubSeq(token_usage', 1, Len(token_usage)) = token_usage
       /\ \A p \in Projects :
              SumUsage(token_usage', p) >= SumUsage(token_usage, p)]_vars

\* Usage is on record, its project is gone from the project table, and the
\* release loop has just resumed a task.
C23_Witness ==
    /\ token_usage # <<>>
    /\ token_usage[1].tokens_used > 0
    /\ token_usage[1].project_id \notin DOMAIN projects
    /\ call.op = "enforce_rate_limits"
    /\ call.status = "resumed"

\* Usage is on record and handle_task_completion has run for a task of its
\* project.
C23_WitnessCompletion ==
    /\ token_usage # <<>>
    /\ call.op = "handle_task_completion"
    /\ call.arg \in DOMAIN tasks
    /\ token_usage[1].project_id = tasks[call.arg].project_id

(* C24: admission reserves nothing.  A budget check passes exactly when     *)
(* the task's estimate is within the project's budget less its recorded    *)
(* usage, whatever other calls for the project are in flight or approved,  *)
(* and an approval writes neither the project nor the usage table; so two  *)
(* calls whose estimates each fit but together do not can both be          *)
(* approved before any usage record lands.                                 *)
C24_AdmissionReservesNothing ==
    [][\A t \in DOMAIN tasks :
          LET p == tasks[t].project_id IN
          /\ (track_pc[t] = "idle" /\ call'.arg = t
                 /\ call'.op \in {"check_project_budget", "track_task_execution"}
                 /\ p \in DOMAIN projects)
              => (track_pc'[t] = "checked"
                    <=> tasks[t].estimated_tokens <= projects[p] - SumUsage(token_usage, p))
          /\ (track_pc[t] = "checked" /\ track_pc'[t] = "running")
              => UNCHANGED <<projects, token_usage>>]_vars

\* Two callers hold an approval for the same project, nothing is on record
\* yet, each estimate fits the budget and the two together exceed it.
C24_Witness ==
    /\ {"t1", "t2"} \subseteq DOMAIN tasks
    /\ track_pc["t1"] = "running"
    /\ track_pc["t2"] = "running"
    /\ tasks["t1"].project_id = tasks["t2"].project_id
    /\ tasks["t1"].project_id \in DOMAIN projects
    /\ token_usage = <<>>
    /\ tasks["t1"].estimated_tokens <= projects[tasks["t1"].project_id]
    /\ tasks["t2"].estimated_tokens <= projects[tasks["t1"].project_id]
    /\ tasks["t1"].estimated_tokens + tasks["t2"].estimated_tokens
           > projects[tasks["t1"].project_id]
    /\ call.op = "track_task_execution"
    /\ call.status = "approved"

(* C25: a register_project that runs while the usage monitor is suspended  *)
(* inside its iteration over the active projects does not disturb it: the  *)
(* iteration ends only when every project has been visited, and in the     *)
(* loop's regular sleep.                                                   *)
C25_IterationUndisturbed ==
    [][(usage_pc = "iter" /\ usage_pc' # "iter")
        => /\ call'.status = "pass"
           /\ usage_todo = {}
           /\ usage_wake' = now + monitoring_interval]_vars

(* C26: in every reachable state each task id in the engine's paused set   *)
(* is that of a stored task whose status is PAUSED.                        *)
C26_PausedSetMatchesStore ==
    \A t \in paused_tasks : t \in DOMAIN tasks /\ tasks[t].status = "paused"

\* The coroutines of one loop that are alive.
Instances(loop) ==
    (IF LoopPc(loop) # "off" THEN 1 ELSE 0)
      + Cardinality({o \in orphans : o.loop = loop})

(* C27: at any time at most one instance of each of the four background    *)
(* loops is alive.                                                         *)
C27_OneInstancePerLoop ==
    \A loop \in Loops : Instances(loop) <= 1

\* The steps of the four background loops.
LoopOps ==
    {"monitor_token_usage", "monitor_task_progress", "manage_checkpoints",
     "enforce_rate_limits"}

(* C28: once stop_monitoring has cleared the flag, no step of a background  *)
(* loop changes a task's stored status, resumes a paused task, consumes a   *)
(* rate-limit slot or creates a checkpoint.                                *)
C28_NoWorkAfterStop ==
    [][(~monitoring_active /\ call'.op \in LoopOps)
        => /\ UNCHANGED <<tasks, paused_tasks, checkpoint_files>>
           /\ \A p \in Projects : call_history'[p] # Append(Cleaned(p), now)]_vars

(* C29: is_rate_limited answers the opposite of what can_execute answers  *)
(* on the same window and leaves the window as can_execute leaves it: an   *)
(* answer of false has appended one timestamp.  A get_project_status on a  *)
(* project with a free slot reports it not limited and leaves one slot     *)
(* fewer for the admissions of that window.                                *)
C29_StatusTakesSlot ==
    [][/\ call'.op = "is_rate_limited" =>
            LET p == call'.arg IN
            /\ call'.status = "false" <=> free_slots[p] > 0
            /\ call'.status = "false" => call_history'[p] = Append(Cleaned(p), now)
            /\ call'.status = "true" => call_history'[p] = Cleaned(p)
       /\ (call'.op = "get_project_status" /\ call'.status # "error") =>
            LET p == call'.arg IN
            /\ call'.status = "not_limited" <=> free_slots[p] > 0
            /\ free_slots[p] > 0 => free_slots'[p] = free_slots[p] - 1
            /\ free_slots[p] = 0 => free_slots'[p] = 0]_vars

\* A status report has just taken the last free slot of the window; no
\* admission through the limiter had been granted before.
C29_Witness ==
    /\ call.op = "get_project_status"
    /\ call.status = "not_limited"
    /\ free_slots[call.arg] = 0
    /\ call_history[call.arg] # <<>>
    /\ admitted[call.arg] = <<>>

IsReleaseStep ==
    /\ call'.op = "enforce_rate_limits"
    /\ call'.status \in {"resumed", "kept"}

\* The tasks of project p among those the pass has resumed after this step.
ResumedOf(p) ==
    LET resumed == IF call'.status = "resumed"
                   THEN Append(enforce_resumed, call'.arg)
                   ELSE enforce_resumed
    IN  Cardinality({i \in 1..Len(resumed) : tasks[resumed[i]].project_id = p})

(* C30: in one pass of the release loop over the paused set, the tasks of  *)
(* a project set back to PENDING are at most the free slots the project    *)
(* had when the pass began, and a task the pass does not resume stays      *)
(* PAUSED and in the paused set.                                           *)
C30_ResumedWithinStartSlots ==
    [][IsReleaseStep =>
        /\ \A p \in Projects : ResumedOf(p) <= enforce_free[p]
        /\ call'.status = "kept" => UNCHANGED <<tasks, paused_tasks>>]_vars

(* C30, as the code has it: every resumption by the release loop finds a   *)
(* free slot at the moment of its own can_execute and takes it, a task is  *)
(* kept whenever its project has no free slot at that moment, and a kept   *)
(* task stays as stored and in the paused set.                             *)
C30_ResumptionTakesFreeSlot ==
    [][(IsReleaseStep /\ call'.arg \in DOMAIN tasks) =>
        LET t == call'.arg
            p == tasks[t].project_id
        IN  /\ call'.status = "resumed" =>
                  /\ free_slots[p] > 0
                  /\ call_history'[p] = Append(Cleaned(p), now)
                  /\ free_slots'[p] = free_slots[p] - 1
                  /\ tasks'[t].status = "pending"
                  /\ t \notin paused_tasks'
            /\ free_slots[p] = 0 => call'.status = "kept"
            /\ call'.status = "kept" => UNCHANGED <<tasks, paused_tasks>>]_vars

\* A pass has resumed t1 with the only free slot and has then kept t2 of
\* the same project paused.
C30_Witness ==
    /\ call.op = "enforce_rate_limits"
    /\ call.arg = "t2"
    /\ call.status = "kept"
    /\ enforce_pc = "sleep"
    /\ {"t1", "t2"} \subseteq DOMAIN tasks
    /\ tasks["t1"].status = "pending"
    /\ tasks["t2"].status = "paused"
    /\ paused_tasks = {"t2"}
    /\ tasks["t1"].project_id = tasks["t2"].project_id
    /\ free_slots[tasks["t2"].project_id] = 0
    /\ now \in {call_history[tasks["t2"].project_id][i] :
                    i \in 1..Len(call_history[tasks["t2"].project_id])}

\* The task_completion records task t has on the ledger.
CompletionRecords(ledger, t) ==
    {i \in 1..Len(ledger) : /\ ledger[i].task_id = t
                            /\ ledger[i].operation_type = "task_completion"}

C32_ApprovedOnlyTakesSlot ==
    [][(IsTrack /\ call'.status = "approved") =>
        LET p == tasks[call'.arg].project_id IN
        /\ call_history'[p] = Append(Cleaned(p), now)
        /\ \A q \in Projects \ {p} : call_history'[q] = call_history[q]
        /\ UNCHANGED <<tasks, token_usage, projects, paused_tasks, active_projects,
                       rate_limits, checkpoint_files, monitoring_active>>]_vars

\* A task has been approved into a window that already held a timestamp,
\* and its stored row is still pending with no checkpoint state set.
C32_Witness ==
    /\ call.op = "track_task_execution"
    /\ call.status = "approved"
    /\ Len(call_history[tasks[call.arg].project_id]) = 2
    /\ tasks[call.arg].status = "pending"
    /\ token_usage # <<>>

\* The timestamps of p's history that are not older than the window.
Unexpired(p) == SelectSeq(call_history[p], LAMBDA x : x >= now - Window)

(* C33: a can_execute leaves the project's history without any timestamp   *)
(* older than 60 seconds and with every younger one in place; when fewer   *)
(* than the limit are left it appends the current time, once, and returns  *)
(* true, and otherwise it returns false and appends nothing.               *)
C33_EvictThenAppend ==
    [][call'.op = "can_execute" =>
        LET p == call'.arg IN
        /\ call'.status = "true" <=> Len(Unexpired(p)) < RateLimitOf(p)
        /\ call'.status = "true" => call_history'[p] = Append(Unexpired(p), now)
        /\ call'.status = "false" => call_history'[p] = Unexpired(p)]_vars

\* A can_execute has dropped an expired timestamp, kept a younger one and
\* appended the current time.
C33_Witness ==
    /\ call.op = "can_execute"
    /\ call.status = "true"
    /\ Len(call_history[call.arg]) = 2
    /\ call_history[call.arg][2] = now
    /\ Len(admitted[call.arg]) = 3
    /\ admitted[call.arg][1] < now - Window

(* C34: get_retry_after returns 0 for a project without history and       *)
(* otherwise max(0, 60 - (time - oldest timestamp)) cut to whole seconds,  *)
(* which with the time read less than a second past the clock is that      *)
(* number on the clock or one less; it is always within 0..60, and right   *)
(* after a denial under limit 1 whose admission was on the same second it  *)
(* is 59 or 60.                                                            *)
C34_RetryAfterRange ==
    [][call'.op = "get_retry_after" =>
        LET h == call_history[call'.arg]
            whole == IF h = <<>> THEN 0 ELSE Max(0, Window - (now - h[1]))
        IN  /\ call'.val \in 0..Window
            /\ h = <<>> => call'.val = 0
            /\ call'.val \in {whole, Max(0, whole - 1)}
            /\ ( /\ call.op = "can_execute"
                 /\ call.status = "false"
                 /\ call.arg = call'.arg
                 /\ RateLimitOf(call.arg) = 1
                 /\ h = <<now>> ) => call'.val \in {59, 60}]_vars

\* get_retry_after has answered 59 while the only timestamp of the history
\* carries the current second.
C34_Witness ==
    /\ call.op = "get_retry_after"
    /\ call.val = 59
    /\ call_history[call.arg] = <<now>>
    /\ RateLimitOf(call.arg) = 1

\* get_retry_after has answered 0 for a history whose oldest timestamp is
\* older than the window.
C34_WitnessStale ==
    /\ call.op = "get_retry_after"
    /\ call.val = 0
    /\ call_history[call.arg] # <<>>
    /\ call_history[call.arg][1] < now - Window

OldestFirst(h) == \A i, j \in 1..Len(h) : i < j => h[i] <= h[j]

(* C35: every project's limiter history is ordered oldest-first, and a     *)
(* history that is within the project's limit stays within it over every   *)
(* step that does not lower the limit (the history starts empty).          *)
C35_HistoryOrderedAndBounded ==
    [][\A p \in Projects :
          /\ OldestFirst(call_history'[p])
          /\ ( /\ Len(call_history[p]) <= RateLimitOf(p)
               /\ RateLimitOf(p)' >= RateLimitOf(p) )
                 => Len(call_history'[p]) <= RateLimitOf(p)']_vars

\* A history holds as many timestamps as its limit, taken at different
\* times, the newest on this second.
C35_Witness ==
    /\ call.op = "can_execute"
    /\ call.status = "true"
    /\ Len(call_history[call.arg]) = RateLimitOf(call.arg)
    /\ Len(call_history[call.arg]) = 2
    /\ call_history[call.arg][1] < call_history[call.arg][2]
    /\ call_history[call.arg][2] = now

\* Whether a can_execute(q) now would admit.
WouldAdmit(q) == Len(Unexpired(q)) < RateLimitOf(q)

(* C36: the limiter's state is per project.  No step changes the limit of  *)
(* more than one project, and a change of limit leaves every history as it *)
(* was; a can_execute(p) for a project without an override admits exactly  *)
(* while fewer than 5 unexpired timestamps are held; and a can_execute(p)  *)
(* leaves the limits, and the history and the admission result of every    *)
(* other project, as they were.                                            *)
C36_LimiterPerProject ==
    [][/\ Cardinality({q \in Projects : RateLimitOf(q)' # RateLimitOf(q)}) <= 1
       /\ rate_limits' # rate_limits => call_history' = call_history
       /\ call'.op = "can_execute" =>
            LET p == call'.arg IN
            /\ rate_limits' = rate_limits
            /\ p \notin DOMAIN rate_limits =>
                  (call'.status = "true" <=> Len(Unexpired(p)) < 5)
            /\ \A q \in Projects \ {p} :
                  /\ call_history'[q] = call_history[q]
                  /\ WouldAdmit(q)' = WouldAdmit(q)]_vars

\* p2, never given a limit, has been denied with 5 timestamps in its window
\* while p1 is held to its own limit of 1.
C36_Witness ==
    /\ call.op = "can_execute"
    /\ call.arg = "p2"
    /\ call.status = "false"
    /\ "p2" \notin DOMAIN rate_limits
    /\ Len(call_history["p2"]) = 5
    /\ "p1" \in DOMAIN rate_limits
    /\ rate_limits["p1"] = 1
    /\ Len(call_history["p1"]) = 1

(* C37: a create_checkpoint puts the artifact at the location of the URI  *)
(* it has just prepared and records that location on the task and on the   *)
(* checkpoint, and load_checkpoint of the returned checkpoint's URI yields *)
(* the data of that checkpoint.  Locations are compared as paths, with or  *)
(* without the file:// in front.                                           *)
C37_StoredAtPreparedUri ==
    [][call'.op = "create_checkpoint" =>
        LET uri == prepared'[Len(prepared')] IN
        /\ uri.path \in checkpoint_files'
        /\ call'.checkpoint_uri.path = uri.path
        /\ call'.task_checkpoint_uri.path = uri.path
        /\ call'.checkpoint_uri.path \in DOMAIN checkpoint_text'
        /\ checkpoint_text'[call'.checkpoint_uri.path] = call'.checkpoint_data]_vars

(* C38: no two calls of prepare_checkpoint, for the same task or for       *)
(* different ones, at the same clock reading or not, return the same URI.  *)
C38_PreparedUrisUnique ==
    \A i, j \in 1..Len(prepared) : i < j => prepared[i] # prepared[j]

\* The lines of the log that complete an operation tracked for project p.
ProjectCompletions(p) ==
    {i \in 1..Len(log_file) :
        /\ log_file[i].phase = "complete"
        /\ \E j \in 1..Len(log_file) :
              /\ log_file[j].phase = "start"
              /\ log_file[j].context.project_id = p
              /\ <<log_file[j].operation, log_file[j].timestamp>> = log_file[i].tracking_id}

\* The lines of the log that start an operation for project p.
ProjectStarts(p) ==
    {j \in 1..Len(log_file) : /\ log_file[j].phase = "start"
                              /\ log_file[j].context.project_id = p}

(* C39: the efficiency complete_operation reports is the smaller of        *)
(* estimated and actual over the larger, so at most 1 and the same with    *)
(* the two swapped; analyze_efficiency reports no_data for a project       *)
(* without records, and for a project whose only completed operation had   *)
(* estimated 1000 and actual 500 it reports the efficiency 0.5.            *)
C39_EstimatorEfficiency ==
    [][/\ (call'.op = "complete_operation" /\ call'.efficiency # <<>>) =>
            LET estimated == call'.estimated_tokens
                actual == call'.val
                reported == call'.efficiency[1]
            IN  /\ reported.num = IF estimated <= actual THEN estimated ELSE actual
                /\ reported.den = IF estimated <= actual THEN actual ELSE estimated
                /\ reported.num <= reported.den
                /\ operation_efficiency(actual, estimated) = <<reported>>
       /\ call'.op = "analyze_efficiency" =>
            LET p == call'.arg IN
            /\ (ProjectStarts(p) = {} /\ ProjectCompletions(p) = {}) => call'.status = "no_data"
            /\ ( /\ Cardinality(ProjectCompletions(p)) = 1
                 /\ \A i \in ProjectCompletions(p) :
                       /\ log_file[i].success
                       /\ log_file[i].estimated_tokens = 1000
                       /\ log_file[i].actual_tokens = 500 )
                 => /\ call'.status = "analyzed"
                    /\ call'.result.average_efficiency.num * 2
                          = call'.result.average_efficiency.den]_vars

\* The log lines of type operation_type that the estimate is to be drawn
\* from: operations of that type completed with success and a positive
\* actual, in the last 30 days.
CompletedOfType(operation_type) ==
    SelectSeq(log_file, LAMBDA entry :
        /\ entry.phase = "complete"
        /\ entry.tracking_id[1] = operation_type
        /\ entry.success
        /\ entry.actual_tokens > 0
        /\ entry.timestamp >= now - 30 * 86400)

(* C40: get_usage_estimate returns the default of the operation type times *)
(* 1, 2 or 5 (simple, complex, very_complex) when the last 30 days hold no  *)
(* completed record of that type with positive actual tokens, and          *)
(* otherwise the integer mean of those records' actual tokens times 1, 1.5 *)
(* or 3, cut to an integer, and then times 1.3 above 20 files or 1.8 above *)
(* 50 files for repo_setup and pr_creation.                                *)
C40_EstimateFromHistory ==
    [][call'.op = "get_usage_estimate" =>
        LET operation_type == call'.arg
            complexity == call'.complexity
            file_count == call'.file_count
            records == CompletedOfType(operation_type)
            mean == SumOf(records, "actual_tokens", 0) \div Len(records)
            scaled == CASE complexity = "complex" -> (mean * 3) \div 2
                        [] complexity = "very_complex" -> mean * 3
                        [] OTHER -> mean
            by_files == IF operation_type \notin {"repo_setup", "pr_creation"} THEN scaled
                        ELSE IF file_count > 50 THEN (scaled * 9) \div 5
                        ELSE IF file_count > 20 THEN (scaled * 13) \div 10
                        ELSE scaled
            table == CASE operation_type = "repo_setup" -> 1500
                       [] operation_type = "status_report" -> 100
                       [] OTHER -> 500
            factor == CASE complexity = "complex" -> 2
                        [] complexity = "very_complex" -> 5
                        [] OTHER -> 1
        IN  call'.val = IF records = <<>> THEN table * factor ELSE by_files]_vars

(* C10: a track_task_execution appends no usage record, and it returns     *)
(* APPROVED or CHECKPOINT_REQUESTED only when recorded usage plus the      *)
(* estimate is within the budget.                                          *)
C10_AdmissionWithinBudget ==
    [][IsTrack =>
        LET row == tasks[call'.arg]
            p == row.project_id
        IN  /\ token_usage' = token_usage
            /\ call'.status \in {"approved", "checkpoint_requested"} =>
                  /\ p \in DOMAIN projects
                  /\ get_project_usage(p) + row.estimated_tokens <= projects[p]]_vars

\* A task was APPROVED for a project that has usage recorded.
C10_Witness ==
    /\ call.op = "track_task_execution"
    /\ call.status = "approved"
    /\ get_project_usage(tasks[call.arg].project_id) > 0

====
